---- MODULE Spec2Model ----
(***************************************************************************)
(* A model of the i915 backend of minigbm (src/i915.c): the modifier       *)
(* policy, the metadata planner (i915_bo_compute_metadata), the allocator  *)
(* (i915_bo_create_from_metadata) and the mapping engine (i915_bo_map).    *)
(*                                                                         *)
(* Values of the C program are modelled as follows.                        *)
(*   - modifiers, tilings, pixel formats and use flags are strings; a      *)
(*     uint64_t use-flag word is the set of the flag names set in it;      *)
(*   - a const uint64_t *modifiers argument is a sequence, and the null    *)
(*     pointer is the one-element sequence NULL;                           *)
(*   - a return value is a string: "0", "-EINVAL", "-" \o errno; a call    *)
(*     in which an assert() does not hold ends with "SIGABRT" in a build   *)
(*     that keeps assertions and goes on in a build with NDEBUG;           *)
(*   - plane p of the C arrays is index p + 1 of the sequences.            *)
(***************************************************************************)
EXTENDS Integers, Sequences, FiniteSets, TLC

VARIABLES i915, drv, is_prelim_kernel, local, bo, call, kernel, vma, thr

vars == <<i915, drv, is_prelim_kernel, local, bo, call, kernel, vma, thr>>

----------------------------------------------------------------------------
(* Modifiers, tilings and the generation preference lists.                 *)

DRM_FORMAT_MOD_LINEAR == "LINEAR"
I915_FORMAT_MOD_X_TILED == "X_TILED"
I915_FORMAT_MOD_Y_TILED == "Y_TILED"
I915_FORMAT_MOD_Yf_TILED == "Yf_TILED"
I915_FORMAT_MOD_Y_TILED_CCS == "Y_TILED_CCS"
I915_FORMAT_MOD_Yf_TILED_CCS == "Yf_TILED_CCS"
I915_FORMAT_MOD_Y_TILED_GEN12_RC_CCS == "Y_TILED_GEN12_RC_CCS"
I915_FORMAT_MOD_4_TILED == "4_TILED"
I915_FORMAT_MOD_4_TILED_MTL_RC_CCS == "4_TILED_MTL_RC_CCS"

I915_TILING_NONE == "NONE"
I915_TILING_X == "X"
I915_TILING_Y == "Y"
I915_TILING_4 == "4"

gen_modifier_order ==
    <<I915_FORMAT_MOD_Y_TILED_CCS, I915_FORMAT_MOD_Y_TILED,
      I915_FORMAT_MOD_X_TILED, DRM_FORMAT_MOD_LINEAR>>

gen12_modifier_order ==
    <<I915_FORMAT_MOD_Y_TILED_GEN12_RC_CCS, I915_FORMAT_MOD_Y_TILED,
      I915_FORMAT_MOD_X_TILED, DRM_FORMAT_MOD_LINEAR>>

gen11_modifier_order ==
    <<I915_FORMAT_MOD_Y_TILED, I915_FORMAT_MOD_X_TILED, DRM_FORMAT_MOD_LINEAR>>

xe_lpdp_modifier_order ==
    <<I915_FORMAT_MOD_4_TILED_MTL_RC_CCS, I915_FORMAT_MOD_4_TILED,
      I915_FORMAT_MOD_X_TILED, DRM_FORMAT_MOD_LINEAR>>

GEN_VERSION_X10(dev) == dev.graphics_version * 10 + dev.sub_version

(* A faulty test: tile 4 taken to start at graphics_version 14. *)
i915_has_tile4_from_gen14(dev) == dev.graphics_version >= 14

i915_has_tile4(dev) == GEN_VERSION_X10(dev) >= 125

(* A faulty order: the graphics_version 12 test placed before the tile-4 test. *)
i915_get_modifier_order_gen12_first(dev) ==
    IF dev.graphics_version = 12 THEN gen12_modifier_order
    ELSE IF GEN_VERSION_X10(dev) >= 125 THEN xe_lpdp_modifier_order
    ELSE IF dev.graphics_version = 11 THEN gen11_modifier_order
    ELSE gen_modifier_order

i915_get_modifier_order(dev) ==
    IF i915_has_tile4(dev) THEN xe_lpdp_modifier_order
    ELSE IF dev.graphics_version = 12 THEN gen12_modifier_order
    ELSE IF dev.graphics_version = 11 THEN gen11_modifier_order
    ELSE gen_modifier_order

(* The set of the elements of a sequence. *)
Range(s) == {s[i] : i \in 1..Len(s)}

----------------------------------------------------------------------------
(* Arithmetic macros of util.h and the system page size.                   *)

PageSize == 4096

ALIGN(A, B) == ((A + B - 1) \div B) * B

DIV_ROUND_UP(n, d) == (n + d - 1) \div d

IS_ALIGNED(A, B) == ALIGN(A, B) = A

(* uint32_t values too large for one machine integer of the checker: two     *)
(* 16-bit limbs, value = hi * 65536 + lo.  WAdd, WMul and WAlign compute     *)
(* without loss (hi may exceed 16 bits); Trunc32 keeps the low 32 bits, as   *)
(* every uint32_t operation of the code does.                                *)
U32(n) == [hi |-> n \div 65536, lo |-> n % 65536]

Trunc32(w) == [hi |-> w.hi % 65536, lo |-> w.lo]

WAdd(a, b) ==
    LET lo == a.lo + b.lo
    IN  [hi |-> a.hi + b.hi + lo \div 65536, lo |-> lo % 65536]

RECURSIVE WMul(_, _)
WMul(a, n) ==
    IF n = 0
    THEN U32(0)
    ELSE LET half == WMul(a, n \div 2)
             twice == WAdd(half, half)
         IN  IF n % 2 = 1 THEN WAdd(twice, a) ELSE twice

(* ALIGN for a power of two B that divides 65536. *)
WAlign(a, B) ==
    LET s == WAdd(a, U32(B - 1))
    IN  [hi |-> s.hi, lo |-> (s.lo \div B) * B]

WLeq(a, b) == a.hi < b.hi \/ (a.hi = b.hi /\ a.lo <= b.lo)

(* The uint32_t operators of the layout code. *)
Add32(a, b) == Trunc32(WAdd(a, b))

Mul32(a, n) == Trunc32(WMul(a, n))

ALIGN32(a, B) == Trunc32(WAlign(a, B))

(* a / 256 of a uint32_t, which fits one integer. *)
Div256(a) == a.hi * 256 + a.lo \div 256

----------------------------------------------------------------------------
(* Pixel formats and the format oracle of the host library.                *)

DRM_FORMAT_ARGB8888 == "ARGB8888"
DRM_FORMAT_R8 == "R8"
DRM_FORMAT_NV12 == "NV12"
DRM_FORMAT_P010 == "P010"
DRM_FORMAT_P016 == "P016"
DRM_FORMAT_YVU420_ANDROID == "YVU420_ANDROID"

(* Per-plane layout of a format: bytes per pixel and subsampling. *)
layout_from_format(format) ==
    CASE format \in {DRM_FORMAT_NV12, "NV21"} ->
           [num_planes |-> 2, bytes_per_pixel |-> <<1, 2>>,
            horizontal_subsampling |-> <<1, 2>>, vertical_subsampling |-> <<1, 2>>]
      [] format \in {DRM_FORMAT_P010, DRM_FORMAT_P016, "P010_INTEL"} ->
           [num_planes |-> 2, bytes_per_pixel |-> <<2, 4>>,
            horizontal_subsampling |-> <<1, 2>>, vertical_subsampling |-> <<1, 2>>]
      [] format \in {DRM_FORMAT_YVU420_ANDROID, "YVU420", "YUV420"} ->
           [num_planes |-> 3, bytes_per_pixel |-> <<1, 1, 1>>,
            horizontal_subsampling |-> <<1, 2, 2>>, vertical_subsampling |-> <<1, 2, 2>>]
      [] format = DRM_FORMAT_R8 ->
           [num_planes |-> 1, bytes_per_pixel |-> <<1>>,
            horizontal_subsampling |-> <<1>>, vertical_subsampling |-> <<1>>]
      [] OTHER ->
           [num_planes |-> 1, bytes_per_pixel |-> <<4>>,
            horizontal_subsampling |-> <<1>>, vertical_subsampling |-> <<1>>]

drv_num_planes_from_format(format) == layout_from_format(format).num_planes

drv_stride_from_format(format, width, plane) ==
    LET layout == layout_from_format(format)
        plane_width == DIV_ROUND_UP(width, layout.horizontal_subsampling[plane + 1])
        stride == plane_width * layout.bytes_per_pixel[plane + 1]
    IN  IF format = DRM_FORMAT_YVU420_ANDROID
        THEN (IF plane = 0 THEN ALIGN(stride, 32) ELSE ALIGN(stride, 16))
        ELSE stride

drv_height_from_format(format, height, plane) ==
    DIV_ROUND_UP(height, layout_from_format(format).vertical_subsampling[plane + 1])

----------------------------------------------------------------------------
(* Use flags and the combination registry.                                  *)

BO_USE_SW_MASK ==
    {"SW_READ_OFTEN", "SW_READ_RARELY", "SW_WRITE_OFTEN", "SW_WRITE_RARELY"}

BO_USE_RENDER_MASK ==
    {"LINEAR", "RENDERING", "RENDERSCRIPT", "TEXTURE"} \cup BO_USE_SW_MASK

BO_USE_TEXTURE_MASK == {"LINEAR", "RENDERSCRIPT", "TEXTURE"} \cup BO_USE_SW_MASK

BO_USE_NON_GPU_HW ==
    {"CAMERA_WRITE", "CAMERA_READ", "HW_VIDEO_DECODER", "HW_VIDEO_ENCODER",
     "SENSOR_DIRECT_DATA"}

BO_USE_CAMERA_MASK == {"CAMERA_READ", "SCANOUT", "CAMERA_WRITE"}

scanout_render_formats ==
    {"ABGR2101010", "ABGR8888", "ARGB2101010", DRM_FORMAT_ARGB8888, "RGB565",
     "XBGR2101010", "XBGR8888", "XRGB2101010", "XRGB8888"}

render_formats == {"ABGR16161616F"}

texture_only_formats ==
    {DRM_FORMAT_R8, DRM_FORMAT_NV12, DRM_FORMAT_P010, "YVU420",
     DRM_FORMAT_YVU420_ANDROID, "YUYV"}

linear_source_formats ==
    {"R16", "NV16", "YUV420", "YUV422", "YUV444", "NV21", DRM_FORMAT_P010}

source_formats == {"P010_INTEL", "NV12_Y_TILED_INTEL"}

(* Build configuration: the optional feature macros are not defined. *)
I915_SCANOUT_4_TILED == FALSE
I915_SCANOUT_Y_TILED == FALSE
LINEAR_ALIGN_256 == FALSE

unset_flags(current_flags, mask) == current_flags \ mask

drv_add_combination(combos, format, metadata, use_flags) ==
    combos \cup {[format |-> format, metadata |-> metadata, use_flags |-> use_flags]}

drv_add_combinations(combos, formats, metadata, use_flags) ==
    combos \cup {[format |-> f, metadata |-> metadata, use_flags |-> use_flags] :
                 f \in formats}

drv_modify_combination(combos, format, metadata, use_flags) ==
    {IF /\ c.format = format
        /\ c.metadata.tiling = metadata.tiling
        /\ c.metadata.modifier = metadata.modifier
     THEN [c EXCEPT !.use_flags = @ \cup use_flags]
     ELSE c : c \in combos}

drv_modify_linear_combinations(combos) ==
    LET lin == [tiling |-> I915_TILING_NONE, priority |-> 1,
                modifier |-> DRM_FORMAT_MOD_LINEAR]
    IN  drv_modify_combination(
            drv_modify_combination(combos, "XRGB8888", lin, {"CURSOR", "SCANOUT"}),
            DRM_FORMAT_ARGB8888, lin, {"CURSOR", "SCANOUT"})

(* The registry i915_init leaves in drv->combos for device dev of driver d. *)
(* A faulty usage: Y-tiled NV12 offered to the camera and the display too. *)
nv12_usage_y_tiled_with_camera(dev) ==
    {"TEXTURE", "HW_VIDEO_DECODER", "SCANOUT", "CAMERA_READ", "CAMERA_WRITE"}

(* nv12_usage of the Y-tiled stratum. *)
nv12_usage_y_tiled(dev) ==
    IF I915_SCANOUT_Y_TILED
    THEN {"TEXTURE", "HW_VIDEO_DECODER", "SCANOUT"} \cup
         (IF dev.has_hw_protection THEN {"PROTECTED", "SCANOUT"} ELSE {})
    ELSE {"TEXTURE", "HW_VIDEO_DECODER"}

i915_add_combinations(d, dev) ==
    LET scanout_and_render == BO_USE_RENDER_MASK \cup {"SCANOUT"}
        render == BO_USE_RENDER_MASK
        texture_only == BO_USE_TEXTURE_MASK
        texture_flags == BO_USE_TEXTURE_MASK
        hw_protected == IF dev.has_hw_protection THEN {"PROTECTED", "SCANOUT"} ELSE {}
        linear_mask == {"RENDERSCRIPT", "LINEAR", "SW_READ_OFTEN", "SW_WRITE_OFTEN",
                        "SW_READ_RARELY", "SW_WRITE_RARELY"}
        camera_mask == {"CAMERA_READ", "CAMERA_WRITE"}
        metadata_linear == [tiling |-> I915_TILING_NONE, priority |-> 1,
                            modifier |-> DRM_FORMAT_MOD_LINEAR]
        c1 == drv_add_combinations({}, scanout_render_formats, metadata_linear,
                                   scanout_and_render)
        c2 == drv_add_combinations(c1, render_formats, metadata_linear, render)
        c3 == drv_add_combinations(c2, texture_only_formats, metadata_linear,
                                   texture_only)
        c4 == drv_modify_linear_combinations(c3)
        c5 == drv_modify_combination(c4, DRM_FORMAT_NV12, metadata_linear,
                  {"CAMERA_READ", "CAMERA_WRITE", "SCANOUT", "HW_VIDEO_DECODER",
                   "HW_VIDEO_ENCODER"} \cup hw_protected)
        c6 == drv_add_combination(c5, "BGR888", metadata_linear, BO_USE_SW_MASK)
        c7 == drv_modify_combination(c6, "ABGR2101010", metadata_linear, BO_USE_SW_MASK)
        c8 == drv_add_combination(c7, "RGB888", metadata_linear, BO_USE_SW_MASK)
        c9 == drv_modify_combination(c8, DRM_FORMAT_R8, metadata_linear,
                  {"CAMERA_READ", "CAMERA_WRITE", "HW_VIDEO_DECODER",
                   "HW_VIDEO_ENCODER", "GPU_DATA_BUFFER", "SENSOR_DIRECT_DATA"})
        c10 == drv_modify_combination(c9, "ABGR8888", metadata_linear,
                  {"CURSOR", "SCANOUT"})
        c11 == drv_modify_combination(c10, DRM_FORMAT_NV12, metadata_linear,
                  {"RENDERING", "TEXTURE"} \cup BO_USE_CAMERA_MASK)
        c12 == drv_modify_combination(c11, "YUYV", metadata_linear,
                  {"TEXTURE", "RENDERING"} \cup BO_USE_CAMERA_MASK)
        c13 == drv_modify_combination(c12, "VYUY", metadata_linear,
                  {"TEXTURE", "RENDERING"} \cup BO_USE_CAMERA_MASK)
        c14 == drv_modify_combination(c13, "UYVY", metadata_linear,
                  {"TEXTURE", "RENDERING"} \cup BO_USE_CAMERA_MASK)
        c15 == drv_modify_combination(c14, "YVYU", metadata_linear,
                  {"TEXTURE", "RENDERING"} \cup BO_USE_CAMERA_MASK)
        c16 == drv_modify_combination(c15, DRM_FORMAT_YVU420_ANDROID, metadata_linear,
                  {"TEXTURE"} \cup BO_USE_CAMERA_MASK)
        c17 == drv_add_combinations(c16, linear_source_formats, metadata_linear,
                  texture_flags \cup BO_USE_CAMERA_MASK)
        render_not_linear == unset_flags(render, linear_mask \cup camera_mask)
        scanout_and_render_not_linear == render_not_linear \cup {"SCANOUT"}
        texture_flags_video ==
            unset_flags(texture_flags,
                        {"RENDERSCRIPT", "SW_WRITE_OFTEN", "SW_READ_OFTEN", "LINEAR"})
        metadata_x_tiled == [tiling |-> I915_TILING_X, priority |-> 2,
                             modifier |-> I915_FORMAT_MOD_X_TILED]
        c18 == drv_add_combinations(c17, render_formats, metadata_x_tiled,
                                    render_not_linear)
        c19 == drv_add_combinations(c18, scanout_render_formats, metadata_x_tiled,
                                    scanout_and_render_not_linear)
        c20 == drv_add_combinations(c19, linear_source_formats, metadata_x_tiled,
                                    texture_flags_video \cup BO_USE_CAMERA_MASK)
        metadata_4_tiled == [tiling |-> I915_TILING_4, priority |-> 3,
                             modifier |-> I915_FORMAT_MOD_4_TILED]
        nv12_usage_4 ==
            IF I915_SCANOUT_4_TILED
            THEN {"TEXTURE", "HW_VIDEO_DECODER", "SCANOUT"} \cup hw_protected
            ELSE {"TEXTURE", "HW_VIDEO_DECODER"}
        t1 == drv_add_combination(c20, DRM_FORMAT_NV12, metadata_4_tiled, nv12_usage_4)
        t2 == drv_add_combination(t1, DRM_FORMAT_P010, metadata_4_tiled, nv12_usage_4)
        t3 == drv_add_combination(t2, "P010_INTEL", metadata_4_tiled, nv12_usage_4)
        t4 == drv_add_combinations(t3, render_formats, metadata_4_tiled,
                                   render_not_linear)
        t5 == drv_add_combinations(t4, scanout_render_formats, metadata_4_tiled,
                                   render_not_linear)
        t6 == drv_add_combinations(t5, source_formats, metadata_4_tiled,
                                   texture_flags \cup BO_USE_NON_GPU_HW)
        metadata_y_tiled == [tiling |-> I915_TILING_Y, priority |-> 3,
                             modifier |-> I915_FORMAT_MOD_Y_TILED]
        nv12_usage_y == nv12_usage_y_tiled(dev)
        p010_usage_y ==
            IF I915_SCANOUT_Y_TILED
            THEN {"TEXTURE", "HW_VIDEO_DECODER"} \cup hw_protected \cup
                 (IF dev.graphics_version >= 11 THEN {"SCANOUT"} ELSE {})
            ELSE nv12_usage_y
        y1 == drv_add_combination(c20, DRM_FORMAT_NV12, metadata_y_tiled, nv12_usage_y)
        y2 == drv_add_combination(y1, DRM_FORMAT_P010, metadata_y_tiled, p010_usage_y)
        y3 == drv_add_combination(y2, "P010_INTEL", metadata_y_tiled, p010_usage_y)
        y4 == drv_add_combinations(y3, render_formats, metadata_y_tiled,
                                   render_not_linear)
        y5 == drv_add_combinations(y4, scanout_render_formats, metadata_y_tiled,
                                   scanout_and_render_not_linear)
        y6 == drv_add_combinations(y5, source_formats, metadata_y_tiled,
                                   texture_flags \cup BO_USE_NON_GPU_HW)
    IN  IF i915_has_tile4(dev)
        THEN IF /\ d.gpu_grp_type \cap {"HAS_INTEL_IGPU", "HAS_VIRTIO_GPU_BLOB"} # {}
                /\ GEN_VERSION_X10(dev) = 125
             THEN c20
             ELSE t6
        ELSE IF d.gpu_grp_type \cap {"HAS_INTEL_DGPU", "HAS_VIRTIO_GPU_BLOB_P2P"} # {}
             THEN c20
             ELSE y6

(* No combination: the null pointer drv_get_combination returns. *)
NO_COMBINATION == [format |-> "NONE", use_flags |-> {},
                   metadata |-> [tiling |-> "NONE", priority |-> 0, modifier |-> "NONE"]]

drv_get_combination(combos, format, use_flags) ==
    LET matching == {c \in combos : c.format = format /\ use_flags \subseteq c.use_flags}
    IN  IF use_flags = {} \/ matching = {}
        THEN NO_COMBINATION
        ELSE CHOOSE c \in matching :
                 \A o \in matching : o.metadata.priority <= c.metadata.priority

(* The null pointer passed for an absent modifier list. *)
NULL == <<"NULL">>

(* The first element of order that occurs in modifiers[0..count-1], else linear. *)
drv_pick_modifier(modifiers, count, order) ==
    LET hits == {i \in 1..Len(order) : \E j \in 1..count : modifiers[j] = order[i]}
    IN  IF hits = {}
        THEN DRM_FORMAT_MOD_LINEAR
        ELSE order[CHOOSE i \in hits : \A k \in hits : i <= k]

----------------------------------------------------------------------------
(* The metadata planner.                                                    *)

(* Plane p of a C array held as a sequence. *)
SetPlane(arr, p, v) == [arr EXCEPT ![p + 1] = v]

(* struct bo_metadata as drv_bo_new leaves it before the backend plans. *)
drv_bo_new(width, height, format, use_flags) ==
    [width |-> width, height |-> height, format |-> format, use_flags |-> use_flags,
     tiling |-> I915_TILING_NONE, format_modifier |-> DRM_FORMAT_MOD_LINEAR,
     num_planes |-> drv_num_planes_from_format(format),
     strides |-> <<0, 0, 0, 0>>, sizes |-> <<0, 0, 0, 0>>, offsets |-> <<0, 0, 0, 0>>,
     total_size |-> 0]

(* The generic layout helper of the host library, for a given plane-0 stride. *)
RECURSIVE drv_bo_from_format_loop(_, _, _, _, _, _)
drv_bo_from_format_loop(meta, stride, aligned_height, format, p, offset) ==
    IF p >= drv_num_planes_from_format(format)
    THEN [meta EXCEPT !.total_size = offset]
    ELSE LET plane_stride ==
                 IF p # 0 /\ format \in {"YVU420", DRM_FORMAT_YVU420_ANDROID}
                 THEN DIV_ROUND_UP(stride, 2) ELSE stride
             size == plane_stride * drv_height_from_format(format, aligned_height, p)
             m == [meta EXCEPT !.strides = SetPlane(@, p, plane_stride),
                               !.sizes = SetPlane(@, p, size),
                               !.offsets = SetPlane(@, p, offset)]
         IN  drv_bo_from_format_loop(m, stride, aligned_height, format, p + 1,
                                     offset + size)

drv_bo_from_format(meta, stride, aligned_height, format) ==
    [ret |-> "0", assert_failed |-> FALSE,
     meta |-> drv_bo_from_format_loop(meta, stride, aligned_height, format, 0, 0)]

(* A faulty test: the stride of every format is aligned. *)
AlignsStride_always(meta) == TRUE

(* The test that guards the alignment of the stride. *)
AlignsStride(meta) == DRM_FORMAT_R8 # meta.format

i915_align_dimensions(meta, dev, format, tiling, stride, aligned_height) ==
    LET horizontal_default == IF GEN_VERSION_X10(dev) >= 125 THEN 4 ELSE 64
        vertical_default == 4
        horizontal_alignment ==
            CASE tiling = I915_TILING_NONE -> (IF LINEAR_ALIGN_256 THEN 256 ELSE 64)
              [] tiling = I915_TILING_X -> 512
              [] tiling = I915_TILING_Y -> 128
              [] tiling = I915_TILING_4 -> 128
              [] OTHER -> horizontal_default
        vertical_alignment ==
            CASE tiling = I915_TILING_NONE ->
                     (IF format = DRM_FORMAT_R8 /\ aligned_height = 1 THEN 1 ELSE 4)
              [] tiling = I915_TILING_X -> 8
              [] tiling = I915_TILING_Y -> 32
              [] tiling = I915_TILING_4 -> 32
              [] OTHER -> vertical_default
    IN  [aligned_height |-> ALIGN(aligned_height, vertical_alignment),
         stride |-> IF AlignsStride(meta)
                    THEN ALIGN(stride, horizontal_alignment)
                    ELSE stride]

i915_format_needs_LCU_alignment(format, plane, dev) ==
    /\ format \in {DRM_FORMAT_NV12, DRM_FORMAT_P010, DRM_FORMAT_P016}
    /\ dev.graphics_version = 11 \/ dev.graphics_version = 12
    /\ plane = 1

(* The plane loop of i915_bo_from_format; failed says an assert did not hold. *)
RECURSIVE i915_bo_from_format_loop(_, _, _, _, _, _, _, _)
i915_bo_from_format_loop(meta, dev, width, height, format, plane, offset, failed) ==
    IF plane >= drv_num_planes_from_format(format)
    THEN [ret |-> "0", assert_failed |-> failed,
          meta |-> [meta EXCEPT !.total_size = ALIGN(offset, PageSize)]]
    ELSE LET al == i915_align_dimensions(meta, dev, format, meta.tiling,
                       drv_stride_from_format(format, width, plane),
                       drv_height_from_format(format, height, plane))
             plane_height ==
                 IF i915_format_needs_LCU_alignment(format, plane, dev)
                 THEN ALIGN(al.aligned_height, 64)
                 ELSE al.aligned_height
             size == al.stride * plane_height
             m == [meta EXCEPT !.strides = SetPlane(@, plane, al.stride),
                               !.sizes = SetPlane(@, plane, size),
                               !.offsets = SetPlane(@, plane, offset)]
             bad == meta.tiling # I915_TILING_NONE /\ ~IS_ALIGNED(offset, PageSize)
         IN  i915_bo_from_format_loop(m, dev, width, height, format, plane + 1,
                                      offset + size, failed \/ bad)

i915_bo_from_format(meta, dev, width, height, format) ==
    i915_bo_from_format_loop(meta, dev, width, height, format, 0, 0, FALSE)

IsCcsModifier(modifier) ==
    modifier \in {I915_FORMAT_MOD_Y_TILED_CCS, I915_FORMAT_MOD_Y_TILED_GEN12_RC_CCS,
                  I915_FORMAT_MOD_4_TILED_MTL_RC_CCS}

(* The value returned; the assert before it is AssertNumPlanes. *)
i915_num_planes_from_modifier(format, modifier) ==
    IF IsCcsModifier(modifier) THEN 2 ELSE drv_num_planes_from_format(format)

AssertNumPlanes(format, modifier) ==
    IsCcsModifier(modifier) => drv_num_planes_from_format(format) = 1

(* The value of i after "for (i = 0; modifiers && i < count; i++)          *)
(*                          if (modifiers[i] == wanted) break;".           *)
SearchIndex(modifiers, count, wanted) ==
    IF modifiers = NULL
    THEN 0
    ELSE LET hits == {i \in 0..(count - 1) : modifiers[i + 1] = wanted}
         IN  IF hits = {} THEN count ELSE CHOOSE i \in hits : \A k \in hits : i <= k

(* The smallest power of two not below n: 1 << (32 - __builtin_clz(n - 1)). *)
RECURSIVE NextPow2From(_, _)
NextPow2From(p, n) == IF p >= n THEN p ELSE NextPow2From(2 * p, n)

(* Step 1: the modifier chosen from the client list or the registry. *)
SelectModifier(d, dev, format, use_flags, modifiers, count) ==
    IF modifiers # NULL
    THEN drv_pick_modifier(modifiers, count, i915_get_modifier_order(dev))
    ELSE drv_get_combination(i915_add_combinations(d, dev), format, use_flags)
             .metadata.modifier

(* A faulty test: the width limit of the newer display engines. *)
HugeBo_8192(dev, width) == dev.graphics_version < 11 /\ width > 8192

HugeBo(dev, width) == dev.graphics_version < 11 /\ width > 4096

(* Step 2a: surfaces wider than 4096 on Gen9/Gen10. *)
HugeOverride(dev, width, format, modifiers, count, modifier) ==
    IF /\ HugeBo(dev, width)
       /\ format # DRM_FORMAT_NV12
       /\ format # DRM_FORMAT_P010
       /\ modifier # I915_FORMAT_MOD_X_TILED
       /\ modifier # DRM_FORMAT_MOD_LINEAR
    THEN IF SearchIndex(modifiers, count, I915_FORMAT_MOD_X_TILED) = count
         THEN DRM_FORMAT_MOD_LINEAR
         ELSE I915_FORMAT_MOD_X_TILED
    ELSE modifier

(* Step 2b: compression disabled. *)
CompressionOverride(d, modifiers, count, modifier) ==
    IF ~d.compression /\ modifier = I915_FORMAT_MOD_Y_TILED_CCS
    THEN IF SearchIndex(modifiers, count, I915_FORMAT_MOD_Y_TILED) = count
         THEN DRM_FORMAT_MOD_LINEAR
         ELSE I915_FORMAT_MOD_Y_TILED
    ELSE modifier

(* Step 2c: gen 8 and earlier. *)
Gen8Override(dev, format, modifier) ==
    IF dev.graphics_version <= 8 /\ format = DRM_FORMAT_ARGB8888
    THEN DRM_FORMAT_MOD_LINEAR
    ELSE modifier

(* Step 3: the switch on the modifier; no case leaves the tiling as it was. *)
TilingFromModifier(modifier, tiling) ==
    CASE modifier = DRM_FORMAT_MOD_LINEAR -> I915_TILING_NONE
      [] modifier = I915_FORMAT_MOD_X_TILED -> I915_TILING_X
      [] modifier \in {I915_FORMAT_MOD_Y_TILED, I915_FORMAT_MOD_Y_TILED_CCS,
                       I915_FORMAT_MOD_Yf_TILED, I915_FORMAT_MOD_Yf_TILED_CCS,
                       I915_FORMAT_MOD_Y_TILED_GEN12_RC_CCS} -> I915_TILING_Y
      [] modifier \in {I915_FORMAT_MOD_4_TILED, I915_FORMAT_MOD_4_TILED_MTL_RC_CCS}
             -> I915_TILING_4
      [] OTHER -> tiling

(* Step 4: strides, sizes, offsets and the total size for the chosen modifier. *)
PlanLayout(meta, dev, width, height, format, modifier) ==
    IF format = DRM_FORMAT_YVU420_ANDROID
    THEN drv_bo_from_format(meta, ALIGN(width, 32), height, format)
    ELSE IF modifier = I915_FORMAT_MOD_Y_TILED_CCS
    THEN LET stride == drv_stride_from_format(format, width, 0)
             width_in_tiles == DIV_ROUND_UP(stride, 128)
             height_in_tiles == DIV_ROUND_UP(height, 32)
             size == width_in_tiles * height_in_tiles * 4096
             ccs_width_in_tiles == DIV_ROUND_UP(width_in_tiles, 32)
             ccs_height_in_tiles == DIV_ROUND_UP(height_in_tiles, 16)
             ccs_size == ccs_width_in_tiles * ccs_height_in_tiles * 4096
             m == [meta EXCEPT
                     !.strides = SetPlane(SetPlane(@, 0, width_in_tiles * 128),
                                          1, ccs_width_in_tiles * 128),
                     !.sizes = SetPlane(SetPlane(@, 0, size), 1, ccs_size),
                     !.offsets = SetPlane(SetPlane(@, 0, 0), 1, size)]
         IN  [ret |-> "0", assert_failed |-> ~AssertNumPlanes(format, modifier),
                   meta |-> [m EXCEPT
                       !.num_planes = i915_num_planes_from_modifier(format, modifier),
                       !.total_size = size + ccs_size]]
    ELSE IF modifier = I915_FORMAT_MOD_Y_TILED_GEN12_RC_CCS
    THEN LET stride0 == ALIGN(drv_stride_from_format(format, width, 0), 512)
             height0 == ALIGN(drv_height_from_format(format, height, 0), 32)
             xelpd == dev.is_xelpd /\ stride0 > 1
             stride == IF xelpd THEN NextPow2From(1, stride0) ELSE stride0
             height1 == IF xelpd
                        THEN ALIGN(drv_height_from_format(format, height0, 0), 128)
                        ELSE height0
             size0 == ALIGN(stride * height1, 65536)
             size1 == ALIGN(size0 \div 256, PageSize)
             m == [meta EXCEPT
                     !.strides = SetPlane(SetPlane(@, 0, stride), 1, stride \div 8),
                     !.sizes = SetPlane(SetPlane(@, 0, size0), 1, size1),
                     !.offsets = SetPlane(SetPlane(@, 0, 0), 1, size0)]
         IN  [ret |-> "0", assert_failed |-> ~AssertNumPlanes(format, modifier),
                   meta |-> [m EXCEPT
                       !.num_planes = i915_num_planes_from_modifier(format, modifier),
                       !.total_size = size0 + size1]]
    ELSE IF modifier = I915_FORMAT_MOD_4_TILED_MTL_RC_CCS
    THEN LET stride == ALIGN(ALIGN(drv_stride_from_format(format, width, 0), 512), 256)
             height1 == ALIGN(drv_height_from_format(format, height, 0), 32)
             size0 == ALIGN(stride * height1, 65536)
             size1 == ALIGN(size0 \div 256, PageSize)
         IN  [ret |-> "0", assert_failed |-> FALSE,
              meta |-> [meta EXCEPT
                  !.strides = SetPlane(SetPlane(@, 0, stride), 1, stride \div 8),
                  !.sizes = SetPlane(SetPlane(@, 0, size0), 1, size1),
                  !.offsets = SetPlane(SetPlane(@, 0, 0), 1, size0),
                  !.num_planes = 2,
                  !.total_size = size0 + size1]]
    ELSE i915_bo_from_format(meta, dev, width, height, format)

(* The modifier after steps 1 and 2. *)
ChooseModifier(d, dev, width, format, use_flags, modifiers, count) ==
    Gen8Override(dev, format,
        CompressionOverride(d, modifiers, count,
            HugeOverride(dev, width, format, modifiers, count,
                SelectModifier(d, dev, format, use_flags, modifiers, count))))

i915_bo_compute_metadata(meta, d, dev, width, height, format, use_flags, modifiers, count) ==
    IF /\ modifiers = NULL
       /\ drv_get_combination(i915_add_combinations(d, dev), format, use_flags)
              = NO_COMBINATION
    THEN [ret |-> "-EINVAL", assert_failed |-> FALSE, meta |-> meta]
    ELSE LET modifier == ChooseModifier(d, dev, width, format, use_flags, modifiers,
                                        count)
             m == [meta EXCEPT !.tiling = TilingFromModifier(modifier, @),
                               !.format_modifier = modifier]
         IN  PlanLayout(m, dev, width, height, format, modifier)

(* The layout code in uint32_t arithmetic, for requests whose products do    *)
(* not fit 31 bits: sizes, offsets and total_size are limb pairs, strides    *)
(* and heights stay integers.                                                *)
RECURSIVE i915_bo_from_format_loop_u32(_, _, _, _, _, _, _, _)
i915_bo_from_format_loop_u32(meta, dev, width, height, format, plane, offset, failed) ==
    IF plane >= drv_num_planes_from_format(format)
    THEN [ret |-> "0", assert_failed |-> failed,
          meta |-> [meta EXCEPT !.total_size = ALIGN32(offset, PageSize)]]
    ELSE LET al == i915_align_dimensions(meta, dev, format, meta.tiling,
                       drv_stride_from_format(format, width, plane),
                       drv_height_from_format(format, height, plane))
             plane_height ==
                 IF i915_format_needs_LCU_alignment(format, plane, dev)
                 THEN ALIGN(al.aligned_height, 64)
                 ELSE al.aligned_height
             size == Mul32(U32(al.stride), plane_height)
             m == [meta EXCEPT !.strides = SetPlane(@, plane, al.stride),
                               !.sizes = SetPlane(@, plane, size),
                               !.offsets = SetPlane(@, plane, offset)]
             bad == meta.tiling # I915_TILING_NONE /\ offset.lo % PageSize # 0
         IN  i915_bo_from_format_loop_u32(m, dev, width, height, format, plane + 1,
                                          Add32(offset, size), failed \/ bad)

i915_bo_from_format_u32(meta, dev, width, height, format) ==
    i915_bo_from_format_loop_u32(meta, dev, width, height, format, 0, U32(0), FALSE)

(* Step 4 in uint32_t arithmetic; the YVU420_ANDROID layout is the host's.   *)
PlanLayout_u32(meta, dev, width, height, format, modifier) ==
    IF format = DRM_FORMAT_YVU420_ANDROID
    THEN LET r == drv_bo_from_format([meta EXCEPT !.sizes = <<0, 0, 0, 0>>,
                                                  !.offsets = <<0, 0, 0, 0>>,
                                                  !.total_size = 0],
                                     ALIGN(width, 32), height, format)
         IN  [r EXCEPT !.meta.sizes = [p \in 1..4 |-> U32(r.meta.sizes[p])],
                       !.meta.offsets = [p \in 1..4 |-> U32(r.meta.offsets[p])],
                       !.meta.total_size = U32(r.meta.total_size)]
    ELSE IF modifier = I915_FORMAT_MOD_Y_TILED_CCS
    THEN LET stride == drv_stride_from_format(format, width, 0)
             width_in_tiles == DIV_ROUND_UP(stride, 128)
             height_in_tiles == DIV_ROUND_UP(height, 32)
             size == Mul32(Mul32(U32(width_in_tiles), height_in_tiles), 4096)
             ccs_width_in_tiles == DIV_ROUND_UP(width_in_tiles, 32)
             ccs_height_in_tiles == DIV_ROUND_UP(height_in_tiles, 16)
             ccs_size == Mul32(Mul32(U32(ccs_width_in_tiles), ccs_height_in_tiles),
                               4096)
             m == [meta EXCEPT
                     !.strides = SetPlane(SetPlane(@, 0, width_in_tiles * 128),
                                          1, ccs_width_in_tiles * 128),
                     !.sizes = SetPlane(SetPlane(@, 0, size), 1, ccs_size),
                     !.offsets = SetPlane(SetPlane(@, 0, U32(0)), 1, size)]
         IN  [ret |-> "0", assert_failed |-> ~AssertNumPlanes(format, modifier),
                   meta |-> [m EXCEPT
                       !.num_planes = i915_num_planes_from_modifier(format, modifier),
                       !.total_size = Add32(size, ccs_size)]]
    ELSE IF modifier = I915_FORMAT_MOD_Y_TILED_GEN12_RC_CCS
    THEN LET stride0 == ALIGN(drv_stride_from_format(format, width, 0), 512)
             height0 == ALIGN(drv_height_from_format(format, height, 0), 32)
             xelpd == dev.is_xelpd /\ stride0 > 1
             stride == IF xelpd THEN NextPow2From(1, stride0) ELSE stride0
             height1 == IF xelpd
                        THEN ALIGN(drv_height_from_format(format, height0, 0), 128)
                        ELSE height0
             size0 == ALIGN32(Mul32(U32(stride), height1), 65536)
             size1 == ALIGN32(U32(Div256(size0)), PageSize)
             m == [meta EXCEPT
                     !.strides = SetPlane(SetPlane(@, 0, stride), 1, stride \div 8),
                     !.sizes = SetPlane(SetPlane(@, 0, size0), 1, size1),
                     !.offsets = SetPlane(SetPlane(@, 0, U32(0)), 1, size0)]
         IN  [ret |-> "0", assert_failed |-> ~AssertNumPlanes(format, modifier),
                   meta |-> [m EXCEPT
                       !.num_planes = i915_num_planes_from_modifier(format, modifier),
                       !.total_size = Add32(size0, size1)]]
    ELSE IF modifier = I915_FORMAT_MOD_4_TILED_MTL_RC_CCS
    THEN LET stride == ALIGN(ALIGN(drv_stride_from_format(format, width, 0), 512), 256)
             height1 == ALIGN(drv_height_from_format(format, height, 0), 32)
             size0 == ALIGN32(Mul32(U32(stride), height1), 65536)
             size1 == ALIGN32(U32(Div256(size0)), PageSize)
         IN  [ret |-> "0", assert_failed |-> FALSE,
              meta |-> [meta EXCEPT
                  !.strides = SetPlane(SetPlane(@, 0, stride), 1, stride \div 8),
                  !.sizes = SetPlane(SetPlane(@, 0, size0), 1, size1),
                  !.offsets = SetPlane(SetPlane(@, 0, U32(0)), 1, size0),
                  !.num_planes = 2,
                  !.total_size = Add32(size0, size1)]]
    ELSE i915_bo_from_format_u32(meta, dev, width, height, format)

(* i915_bo_compute_metadata with the layout in uint32_t arithmetic. *)
i915_bo_compute_metadata_u32(meta, d, dev, width, height, format, use_flags, modifiers, count) ==
    IF /\ modifiers = NULL
       /\ drv_get_combination(i915_add_combinations(d, dev), format, use_flags)
              = NO_COMBINATION
    THEN [ret |-> "-EINVAL", assert_failed |-> FALSE, meta |-> meta]
    ELSE LET modifier == ChooseModifier(d, dev, width, format, use_flags, modifiers,
                                        count)
             m == [meta EXCEPT !.tiling = TilingFromModifier(modifier, @),
                               !.format_modifier = modifier,
                               !.sizes = [p \in 1..4 |-> U32(0)],
                               !.offsets = [p \in 1..4 |-> U32(0)],
                               !.total_size = U32(0)]
         IN  PlanLayout_u32(m, dev, width, height, format, modifier)

----------------------------------------------------------------------------
(* The allocator.                                                           *)

(* A faulty predicate: BO_USE_SW_WRITE_RARELY left out. *)
is_need_local_without_write_rarely(use_flags) ==
    IF \/ "SW_READ_RARELY" \in use_flags \/ "SW_READ_OFTEN" \in use_flags
       \/ "SW_WRITE_OFTEN" \in use_flags
    THEN FALSE
    ELSE TRUE

(* The value is_need_local computes from the flags, stores in its static     *)
(* variable and returns. *)
is_need_local(use_flags) ==
    IF \/ "SW_READ_RARELY" \in use_flags \/ "SW_READ_OFTEN" \in use_flags
       \/ "SW_WRITE_RARELY" \in use_flags \/ "SW_WRITE_OFTEN" \in use_flags
    THEN FALSE
    ELSE TRUE

flags_to_heap(dev, flags) ==
    IF dev.vram_size > 0 THEN "DEVICE_LOCAL_PREFERRED" ELSE "SYSTEM_MEMORY"

(* A kernel request as the call log keeps it. *)
Ioctl(name, handle, size, regions, flags, ok) ==
    [name |-> name, handle |-> handle, size |-> size, regions |-> regions,
     flags |-> flags, ok |-> ok]

(* The creation request i915_bo_create_from_metadata builds, need_local being *)
(* the value it got from is_need_local. *)
CreateRequest(meta, dev, prelim, need_local) ==
    IF need_local /\ dev.has_local_mem
    THEN IF ~prelim
         THEN LET heap == flags_to_heap(dev, meta.use_flags)
              IN  [name |-> "GEM_CREATE_EXT",
                   size |-> ALIGN(meta.total_size, 65536),
                   regions |-> CASE heap = "DEVICE_LOCAL_PREFERRED" -> <<"vram", "sys">>
                                 [] heap = "DEVICE_LOCAL" -> <<"vram">>
                                 [] heap = "SYSTEM_MEMORY" -> <<"sys">>
                                 [] OTHER -> <<>>,
                   flags |-> IF heap = "DEVICE_LOCAL_PREFERRED"
                             THEN {"NEEDS_CPU_ACCESS"} ELSE {}]
         ELSE [name |-> "PRELIM_GEM_CREATE_EXT",
               size |-> ALIGN(meta.total_size, 65536),
               regions |-> IF dev.force_mem_local
                           THEN <<"vram", "sys">> ELSE <<"sys">>,
               flags |-> {}]
    ELSE [name |-> "GEM_CREATE", size |-> meta.total_size, regions |-> <<>>,
          flags |-> {}]

(* A faulty test: graphics_version 14 left out. *)
UsesTilingIoctls_on_gen14(dev) == GEN_VERSION_X10(dev) # 125

(* Whether the backend sets and reads the tiling fence of a device. *)
UsesTilingIoctls(dev) == GEN_VERSION_X10(dev) # 125 /\ dev.graphics_version # 14

(* The kernel: GEM_CREATE hands out the next handle, GEM_CLOSE retires one. *)
GemCreate(k) == [k EXCEPT !.open = @ \cup {k.next}, !.next = @ + 1]

GemClose(k, handle) == [k EXCEPT !.open = @ \ {handle}]

(* i915_bo_create_from_metadata on buffer b, the kernel letting the creation *)
(* and SET_TILING succeed or fail with errno e. *)
i915_bo_create_from_metadata(b, dev, prelim, need_local, k, create_ok, tiling_ok, e) ==
    LET cr == CreateRequest(b.meta, dev, prelim, need_local)
        gem_handle == k.next
        create == Ioctl(cr.name, IF create_ok THEN gem_handle ELSE 0, cr.size,
                        cr.regions, cr.flags, create_ok)
        handles == [p \in 1..4 |->
                       IF p - 1 < b.meta.num_planes THEN gem_handle ELSE b.handles[p]]
        set_tiling == Ioctl("GEM_SET_TILING", handles[1], b.meta.strides[1], <<>>,
                            {b.meta.tiling}, tiling_ok)
        close == Ioctl("GEM_CLOSE", handles[1], 0, <<>>, {}, TRUE)
    IN  IF ~create_ok
        THEN [ret |-> "-" \o e, bo |-> b, kernel |-> k, ioctls |-> <<create>>]
        ELSE IF ~UsesTilingIoctls(dev)
        THEN [ret |-> "0", bo |-> [b EXCEPT !.handles = handles],
              kernel |-> GemCreate(k), ioctls |-> <<create>>]
        ELSE IF tiling_ok
        THEN [ret |-> "0", bo |-> [b EXCEPT !.handles = handles],
              kernel |-> GemCreate(k), ioctls |-> <<create, set_tiling>>]
        ELSE [ret |-> "-" \o e, bo |-> [b EXCEPT !.handles = handles],
              kernel |-> GemClose(GemCreate(k), handles[1]),
              ioctls |-> <<create, set_tiling, close>>]

----------------------------------------------------------------------------
(* Mapping.                                                                 *)

MAP_FAILED == "MAP_FAILED"

(* The address a successful mapping request yields. *)
MappedAddr == "addr"

(* The test i915_bo_map repeats before each choice of a caching mode. *)
WantsWc(use_flags) ==
    /\ "SCANOUT" \in use_flags
    /\ use_flags \cap {"RENDERSCRIPT", "CAMERA_READ", "CAMERA_WRITE",
                       "SW_READ_OFTEN"} = {}

drv_get_prot(map_flags) ==
    IF "WRITE" \in map_flags THEN {"PROT_READ", "PROT_WRITE"} ELSE {"PROT_READ"}

(* A faulty test: the Meteor Lake compressed modifier left out. *)
IsUnmappable_without_mtl(modifier) ==
    \/ modifier = I915_FORMAT_MOD_Y_TILED_CCS
    \/ modifier = I915_FORMAT_MOD_Y_TILED_GEN12_RC_CCS

(* The modifiers i915_bo_map refuses. *)
IsUnmappable(modifier) ==
    \/ modifier = I915_FORMAT_MOD_Y_TILED_CCS
    \/ modifier = I915_FORMAT_MOD_Y_TILED_GEN12_RC_CCS
    \/ modifier = I915_FORMAT_MOD_4_TILED_MTL_RC_CCS

(* What the kernel answers to the first, second and third request of one    *)
(* i915_bo_map call: success or failure. *)
MapOutcomes == [1..3 -> BOOLEAN]

(* A faulty tail: the length recorded before the address is tested. *)
MapResult_length_first(v, size, addr, ioctls) ==
    [addr |-> addr, vma |-> [v EXCEPT !.length = size], ioctls |-> ioctls]

(* The tail of i915_bo_map: a failed mapping returns, a good one records the *)
(* length. *)
MapResult(v, size, addr, ioctls) ==
    IF addr = MAP_FAILED
    THEN [addr |-> MAP_FAILED, vma |-> v, ioctls |-> ioctls]
    ELSE [addr |-> addr, vma |-> [v EXCEPT !.length = size], ioctls |-> ioctls]

(* A faulty test: the offset request repeated after any failure. *)
RetriesOffset_on_any_failure(first_ok, first) == ~first_ok

(* The offset request is repeated only when the FIXED one failed. *)
RetriesOffset(first_ok, first) == ~first_ok /\ first = {"FIXED"}

(* i915_bo_map on buffer b with descriptor v, the kernel answering o. *)
i915_bo_map(b, dev, v, map_flags, o) ==
    LET handle == b.handles[1]
        size == b.meta.total_size
        cache == IF WantsWc(b.meta.use_flags) THEN {"WC"} ELSE {"WB"}
        gem_flags == IF WantsWc(b.meta.use_flags) THEN {"WC"} ELSE {}
        done(addr, ioctls) == MapResult(v, size, addr, ioctls)
    IN  IF IsUnmappable(b.meta.format_modifier)
        THEN [addr |-> MAP_FAILED, vma |-> v, ioctls |-> <<>>]
        ELSE IF dev.has_mmap_offset
        THEN LET first == IF dev.has_local_mem THEN {"FIXED"} ELSE cache
                 io1 == Ioctl("GEM_MMAP_OFFSET", handle, 0, <<>>, first, o[1])
                 retry == RetriesOffset(o[1], first)
                 io2 == Ioctl("GEM_MMAP_OFFSET", handle, 0, <<>>, cache, o[2])
                 ios == IF retry THEN <<io1, io2>> ELSE <<io1>>
                 ok == IF retry THEN o[2] ELSE o[1]
                 mapped == o[Len(ios) + 1]
                 mm == Ioctl("mmap", handle, size, <<>>,
                             {"PROT_READ", "PROT_WRITE"}, mapped)
             IN  IF ~ok
                 THEN [addr |-> MAP_FAILED, vma |-> v, ioctls |-> ios]
                 ELSE done(IF mapped THEN MappedAddr ELSE MAP_FAILED,
                           Append(ios, mm))
        ELSE IF b.meta.tiling = I915_TILING_NONE
        THEN LET io == Ioctl("GEM_MMAP", handle, size, <<>>, gem_flags, o[1])
             IN  done(IF o[1] THEN MappedAddr ELSE MAP_FAILED, <<io>>)
        ELSE LET gtt == Ioctl("GEM_MMAP_GTT", handle, 0, <<>>, {}, o[1])
                 io == Ioctl("GEM_MMAP", handle, size, <<>>, gem_flags, o[2])
                 mm == Ioctl("mmap", handle, size, <<>>, drv_get_prot(map_flags),
                             o[2])
             IN  IF ~o[1]
                 THEN IF ~o[2]
                      THEN [addr |-> MAP_FAILED, vma |-> v, ioctls |-> <<gtt, io>>]
                      ELSE [addr |-> MappedAddr, vma |-> [v EXCEPT !.length = size],
                            ioctls |-> <<gtt, io>>]
                 ELSE done(IF o[2] THEN MappedAddr ELSE MAP_FAILED, <<gtt, mm>>)

----------------------------------------------------------------------------
(* Import and cache maintenance.                                            *)

(* drv_gem_bo_destroy: one GEM_CLOSE for the handle the planes share. *)
drv_gem_bo_destroy(b, k) ==
    IF b.meta.num_planes > 0
    THEN [kernel |-> GemClose(k, b.handles[1]),
          ioctls |-> <<Ioctl("GEM_CLOSE", b.handles[1], 0, <<>>, {}, TRUE)>>]
    ELSE [kernel |-> k, ioctls |-> <<>>]

(* drv_prime_bo_import: PRIME_FD_TO_HANDLE adopts the buffer behind the file *)
(* descriptors, one handle for all planes, and stores the caller's tiling.   *)
drv_prime_bo_import(b, data, k, prime_ok, e) ==
    LET handle == k.next
        io == Ioctl("PRIME_FD_TO_HANDLE", IF prime_ok THEN handle ELSE 0, 0, <<>>,
                    {}, prime_ok)
    IN  IF ~prime_ok
        THEN [ret |-> "-" \o e, bo |-> [b EXCEPT !.meta.num_planes = 0],
              kernel |-> k, ioctls |-> <<io>>]
        ELSE [ret |-> "0",
              bo |-> [b EXCEPT !.handles = [p \in 1..4 |->
                                              IF p - 1 < b.meta.num_planes
                                              THEN handle ELSE b.handles[p]],
                               !.meta.tiling = data.tiling],
              kernel |-> GemCreate(k), ioctls |-> <<io>>]

(* What i915_bo_import and i915_bo_invalidate return when their ioctl fails: *)
(* ret, the -1 of drmIoctl. *)
IoctlFailure(e) == "-1"

(* A faulty import: the adopted buffer is kept when GET_TILING fails. *)
i915_bo_import_keeps_handle(b, dev, data, k, prime_ok, tiling_ok, kernel_tiling, e) ==
    LET b1 == [b EXCEPT !.meta.num_planes =
                            i915_num_planes_from_modifier(data.format,
                                                          data.format_modifier)]
        failed == ~AssertNumPlanes(data.format, data.format_modifier)
        pr == drv_prime_bo_import(b1, data, k, prime_ok, e)
        get == [name |-> "GEM_GET_TILING", handle |-> pr.bo.handles[1],
                tiling_mode |-> kernel_tiling, ok |-> tiling_ok]
    IN  IF pr.ret # "0"
        THEN [ret |-> pr.ret, assert_failed |-> failed, bo |-> pr.bo,
              kernel |-> pr.kernel, ioctls |-> pr.ioctls]
        ELSE IF UsesTilingIoctls(dev)
        THEN [ret |-> IF tiling_ok THEN "0" ELSE "-1", assert_failed |-> failed,
              bo |-> [pr.bo EXCEPT !.meta.tiling =
                                       IF tiling_ok THEN kernel_tiling ELSE @],
              kernel |-> pr.kernel, ioctls |-> pr.ioctls \o <<get>>]
        ELSE [ret |-> "0", assert_failed |-> failed,
              bo |-> [pr.bo EXCEPT !.meta.tiling = data.tiling],
              kernel |-> pr.kernel, ioctls |-> pr.ioctls]

(* i915_bo_import of the buffer described by data; the kernel answers the    *)
(* adoption and GET_TILING, the latter with kernel_tiling, or fails with e.  *)
i915_bo_import(b, dev, data, k, prime_ok, tiling_ok, kernel_tiling, e) ==
    LET b1 == [b EXCEPT !.meta.num_planes =
                            i915_num_planes_from_modifier(data.format,
                                                          data.format_modifier)]
        failed == ~AssertNumPlanes(data.format, data.format_modifier)
        pr == drv_prime_bo_import(b1, data, k, prime_ok, e)
        get == [name |-> "GEM_GET_TILING", handle |-> pr.bo.handles[1],
                tiling_mode |-> kernel_tiling, ok |-> tiling_ok]
        un == drv_gem_bo_destroy(pr.bo, pr.kernel)
    IN  IF pr.ret # "0"
        THEN [ret |-> pr.ret, assert_failed |-> failed, bo |-> pr.bo,
              kernel |-> pr.kernel, ioctls |-> pr.ioctls]
        ELSE IF UsesTilingIoctls(dev)
        THEN IF ~tiling_ok
             THEN [ret |-> IoctlFailure(e), assert_failed |-> failed, bo |-> pr.bo,
                   kernel |-> un.kernel,
                   ioctls |-> pr.ioctls \o <<get>> \o un.ioctls]
             ELSE [ret |-> "0", assert_failed |-> failed,
                   bo |-> [pr.bo EXCEPT !.meta.tiling = kernel_tiling],
                   kernel |-> pr.kernel, ioctls |-> pr.ioctls \o <<get>>]
        ELSE [ret |-> "0", assert_failed |-> failed,
              bo |-> [pr.bo EXCEPT !.meta.tiling = data.tiling],
              kernel |-> pr.kernel, ioctls |-> pr.ioctls]

(* A faulty invalidate: the domain is set on every generation. *)
i915_bo_invalidate_every_gen(b, dev, map_flags, domain_ok, e) ==
    LET domain == IF b.meta.tiling = I915_TILING_NONE THEN "CPU" ELSE "GTT"
        set_domain == [name |-> "GEM_SET_DOMAIN", handle |-> b.handles[1],
                       read_domains |-> domain,
                       write_domain |-> IF "WRITE" \in map_flags
                                        THEN domain ELSE "0",
                       ok |-> domain_ok]
    IN  [ret |-> IF domain_ok THEN "0" ELSE "-1", ioctls |-> <<set_domain>>]

(* i915_bo_invalidate of a buffer mapped with map_flags. *)
i915_bo_invalidate(b, dev, map_flags, domain_ok, e) ==
    IF GEN_VERSION_X10(dev) # 125
    THEN LET domain == IF b.meta.tiling = I915_TILING_NONE THEN "CPU" ELSE "GTT"
             set_domain == [name |-> "GEM_SET_DOMAIN", handle |-> b.handles[1],
                            read_domains |-> domain,
                            write_domain |-> IF "WRITE" \in map_flags
                                             THEN domain ELSE "0",
                            ok |-> domain_ok]
         IN  [ret |-> IF domain_ok THEN "0" ELSE IoctlFailure(e),
              ioctls |-> <<set_domain>>]
    ELSE [ret |-> "0", ioctls |-> <<>>]

----------------------------------------------------------------------------
(* Devices, drivers and requests the model draws from.                      *)

(* Longest client modifier list. *)
MaxModCount == 2

(* graphics_version, sub_version of the modelled devices. *)
Generations == {<<8, 0>>, <<9, 0>>, <<11, 0>>, <<12, 0>>, <<12, 5>>, <<14, 0>>}

(* struct i915_device after i915_init: has_local_mem is vram.size > 0,      *)
(* force_mem_local needs vram, has_hw_protection is graphics_version >= 12. *)
Device(g, xelpd, lmem, moff, force) ==
    [graphics_version |-> g[1], sub_version |-> g[2], is_xelpd |-> xelpd,
     has_local_mem |-> lmem, vram_size |-> IF lmem THEN 1 ELSE 0,
     force_mem_local |-> force, has_mmap_offset |-> moff,
     has_hw_protection |-> g[1] >= 12]

Devices ==
    {Device(g, x, l, m, f) :
        g \in Generations, x \in BOOLEAN, l \in BOOLEAN, m \in BOOLEAN,
        f \in BOOLEAN}

ReachableDevice(dev) ==
    /\ dev.is_xelpd => dev.graphics_version = 12 /\ dev.sub_version = 0
    /\ dev.has_local_mem => dev.graphics_version >= 12
    /\ dev.force_mem_local => dev.has_local_mem

(* struct driver: the compression switch and the GPU group of the host. *)
Drivers ==
    [compression : BOOLEAN,
     gpu_grp_type : {{}, {"HAS_INTEL_IGPU", "HAS_INTEL_DGPU"}}]

Formats ==
    {DRM_FORMAT_ARGB8888, DRM_FORMAT_R8, DRM_FORMAT_NV12, DRM_FORMAT_P010,
     DRM_FORMAT_YVU420_ANDROID}

(* width, height of the requests. *)
Dims == {<<100, 1>>, <<100, 2>>, <<100, 33>>, <<5000, 2>>}

UseFlagSets ==
    {{"RENDERING"}, {"TEXTURE"}, {"SCANOUT", "RENDERING"},
     {"SW_READ_OFTEN", "SW_WRITE_OFTEN", "TEXTURE"},
     {"CAMERA_READ", "CAMERA_WRITE", "HW_VIDEO_DECODER", "SCANOUT"},
     {"HW_VIDEO_DECODER", "TEXTURE"}, {"CURSOR", "SCANOUT"}, {"GPU_DATA_BUFFER"}}

ClientModifiers ==
    {DRM_FORMAT_MOD_LINEAR, I915_FORMAT_MOD_X_TILED, I915_FORMAT_MOD_Y_TILED,
     I915_FORMAT_MOD_Y_TILED_CCS, I915_FORMAT_MOD_Y_TILED_GEN12_RC_CCS,
     I915_FORMAT_MOD_4_TILED, I915_FORMAT_MOD_4_TILED_MTL_RC_CCS}

ModifierLists == UNION {[1..n -> ClientModifiers] : n \in 0..MaxModCount}

(* Two requests of the design's scenarios: a camera, decoder and display     *)
(* NV12 frame, and a render target wider than 4096.                          *)
ScenarioRequests ==
    {[width |-> 1920, height |-> 1088, format |-> DRM_FORMAT_NV12,
      use_flags |-> {"CAMERA_READ", "CAMERA_WRITE", "HW_VIDEO_DECODER", "SCANOUT"},
      modifiers |-> NULL, count |-> 0],
     [width |-> 5000, height |-> 1000, format |-> DRM_FORMAT_ARGB8888,
      use_flags |-> {"RENDERING"}, modifiers |-> NULL, count |-> 0]}

(* A request of drv_bo_create (no list) or drv_bo_create_with_modifiers. *)
Requests ==
    {[width |-> d[1], height |-> d[2], format |-> f, use_flags |-> u,
      modifiers |-> NULL, count |-> 0] :
        d \in Dims, f \in Formats, u \in UseFlagSets}
    \cup
    {[width |-> d[1], height |-> d[2], format |-> f, use_flags |-> {"RENDERING"},
      modifiers |-> ms, count |-> Len(ms)] :
        d \in Dims, f \in Formats, ms \in ModifierLists}
    \cup ScenarioRequests

NoRequest ==
    [width |-> 0, height |-> 0, format |-> "NONE", use_flags |-> {},
     modifiers |-> NULL, count |-> 0]

NoBo ==
    [state |-> "none", meta |-> drv_bo_new(0, 0, "NONE", {}),
     handles |-> <<0, 0, 0, 0>>]

(* A mapping descriptor as the host allocates it: zeroed. *)
NoVma == [length |-> 0, addr |-> "none", map_flags |-> {}]

(* The last call of a backend operation: its request, its return value, the  *)
(* kernel requests it issued in order, the mapping descriptor it left, and   *)
(* the errno of its failed ioctl ("0" when none failed).                     *)
NoCall == [op |-> "none", ret |-> "0", req |-> NoRequest, ioctls |-> <<>>,
           vma |-> NoVma, errno |-> "0"]

----------------------------------------------------------------------------
(* The planner as a state machine: one buffer is planned and released.       *)

InitPlan ==
    /\ i915 \in {dev \in Devices :
                    /\ ReachableDevice(dev)
                    /\ ~dev.has_local_mem /\ dev.has_mmap_offset}
    /\ drv \in Drivers
    /\ is_prelim_kernel = FALSE
    /\ local = TRUE
    /\ bo = NoBo
    /\ call = NoCall
    /\ kernel = [open |-> {}, next |-> 1]
    /\ vma = NoVma
    /\ thr = <<>>

(* drv_bo_new followed by the backend's bo_compute_metadata, on a request   *)
(* of the set reqs. *)
ComputeMetadataOf(reqs) ==
    /\ bo.state = "none"
    /\ \E req \in reqs :
          LET r == i915_bo_compute_metadata(
                       drv_bo_new(req.width, req.height, req.format, req.use_flags),
                       drv, i915, req.width, req.height, req.format, req.use_flags,
                       req.modifiers, req.count)
          IN  \E ret \in (IF r.assert_failed THEN {"SIGABRT", r.ret} ELSE {r.ret}) :
                /\ bo' = [bo EXCEPT !.state = IF ret = "0" THEN "planned" ELSE "failed",
                                    !.meta = r.meta]
                /\ call' = [op |-> "compute_metadata", ret |-> ret, req |-> req,
                            ioctls |-> <<>>, vma |-> NoVma, errno |-> "0"]
    /\ UNCHANGED <<i915, drv, is_prelim_kernel, local, kernel, vma, thr>>

ComputeMetadata == ComputeMetadataOf(Requests)

(* The host frees a buffer that owns no kernel handle. *)
Release ==
    /\ bo.state \in {"planned", "failed"}
    /\ bo' = NoBo
    /\ call' = NoCall
    /\ UNCHANGED <<i915, drv, is_prelim_kernel, local, kernel, vma, thr>>

NextPlan == ComputeMetadata \/ Release

SpecPlan == InitPlan /\ [][NextPlan]_vars

----------------------------------------------------------------------------
(* The planner on large surfaces, in uint32_t arithmetic.                    *)

(* width, height of the large requests, next to a small one. *)
WideDims ==
    {<<100, 33>>, <<16384, 16384>>, <<32768, 32768>>, <<40000, 30000>>,
     <<65536, 16384>>, <<65536, 65536>>}

WideFormats == {DRM_FORMAT_ARGB8888, DRM_FORMAT_R8, DRM_FORMAT_NV12, DRM_FORMAT_P010}

WideRequests ==
    {[width |-> d[1], height |-> d[2], format |-> f, use_flags |-> u,
      modifiers |-> NULL, count |-> 0] :
        d \in WideDims, f \in WideFormats, u \in {{"RENDERING"}, {"TEXTURE"}}}
    \cup
    {[width |-> d[1], height |-> d[2], format |-> f, use_flags |-> {"RENDERING"},
      modifiers |-> <<m>>, count |-> 1] :
        d \in WideDims, f \in WideFormats, m \in ClientModifiers}

(* drv_bo_new followed by the backend's bo_compute_metadata. *)
ComputeMetadataWide ==
    /\ bo.state = "none"
    /\ \E req \in WideRequests :
          LET r == i915_bo_compute_metadata_u32(
                       drv_bo_new(req.width, req.height, req.format, req.use_flags),
                       drv, i915, req.width, req.height, req.format, req.use_flags,
                       req.modifiers, req.count)
          IN  \E ret \in (IF r.assert_failed THEN {"SIGABRT", r.ret} ELSE {r.ret}) :
                /\ bo' = [bo EXCEPT !.state = IF ret = "0" THEN "planned" ELSE "failed",
                                    !.meta = r.meta]
                /\ call' = [op |-> "compute_metadata", ret |-> ret, req |-> req,
                            ioctls |-> <<>>, vma |-> NoVma, errno |-> "0"]
    /\ UNCHANGED <<i915, drv, is_prelim_kernel, local, kernel, vma, thr>>

NextWide == ComputeMetadataWide \/ Release

SpecWide == InitPlan /\ [][NextWide]_vars

----------------------------------------------------------------------------
(* The life of one buffer: planned, created, mapped, unmapped, destroyed.    *)

(* Handles the kernel hands out before the model stops creating. *)
MaxHandles == 2

Errnos == {"ENOMEM", "EINVAL"}

MapFlagSets == {{"READ"}, {"READ", "WRITE"}}

LifeUseFlagSets ==
    {{"RENDERING"}, {"SCANOUT", "RENDERING"}, {"SW_READ_RARELY"},
     {"SW_READ_OFTEN"}, {"SW_WRITE_RARELY"}, {"SW_WRITE_OFTEN"},
     {"SW_READ_OFTEN", "SCANOUT", "RENDERING"}}

LifeModifierLists ==
    {<<I915_FORMAT_MOD_X_TILED>>, <<I915_FORMAT_MOD_Y_TILED_CCS>>,
     <<I915_FORMAT_MOD_Y_TILED_GEN12_RC_CCS>>,
     <<I915_FORMAT_MOD_4_TILED_MTL_RC_CCS>>}

LifeRequests ==
    {[width |-> 100, height |-> 2, format |-> f, use_flags |-> u,
      modifiers |-> NULL, count |-> 0] :
        f \in {DRM_FORMAT_ARGB8888, DRM_FORMAT_NV12}, u \in LifeUseFlagSets}
    \cup
    {[width |-> 100, height |-> 2, format |-> DRM_FORMAT_ARGB8888,
      use_flags |-> {"RENDERING"}, modifiers |-> ms, count |-> Len(ms)] :
        ms \in LifeModifierLists}

(* struct drv_import_fd_data: what the exporter says about the buffer. *)
ImportData ==
    {[width |-> 100, height |-> 2, format |-> f, use_flags |-> {"RENDERING"},
      format_modifier |-> m, tiling |-> t] :
        f \in {DRM_FORMAT_ARGB8888, DRM_FORMAT_NV12},
        m \in {I915_FORMAT_MOD_Y_TILED, I915_FORMAT_MOD_Y_TILED_GEN12_RC_CCS},
        t \in {I915_TILING_NONE, I915_TILING_Y}}

(* The tiling mode GET_TILING reports. *)
KernelTilings == {I915_TILING_NONE, I915_TILING_X}

Init ==
    /\ i915 \in {dev \in Devices : ReachableDevice(dev)}
    /\ drv \in {d \in Drivers : d.compression /\ d.gpu_grp_type = {}}
    /\ is_prelim_kernel \in BOOLEAN
    /\ local = TRUE
    /\ bo = NoBo
    /\ call = NoCall
    /\ kernel = [open |-> {}, next |-> 1]
    /\ vma = NoVma
    /\ thr = <<>>

PlanBuffer == kernel.next <= MaxHandles /\ ComputeMetadataOf(LifeRequests)

(* The host frees a buffer whose planning or creation failed. *)
Free ==
    /\ bo.state \in {"failed", "create_failed"}
    /\ bo' = NoBo
    /\ call' = NoCall
    /\ UNCHANGED <<i915, drv, is_prelim_kernel, local, kernel, vma, thr>>

(* bo_create_from_metadata called by one thread: is_need_local stores its    *)
(* value in the static variable and returns it. *)
CreateFromMetadata ==
    /\ bo.state = "planned"
    /\ \E create_ok \in BOOLEAN, tiling_ok \in BOOLEAN, e \in Errnos :
          LET need_local == is_need_local(bo.meta.use_flags)
              r == i915_bo_create_from_metadata(bo, i915, is_prelim_kernel,
                                                need_local, kernel, create_ok,
                                                tiling_ok, e)
          IN  /\ local' = need_local
              /\ bo' = [r.bo EXCEPT !.state = IF r.ret = "0" THEN "created"
                                                             ELSE "create_failed"]
              /\ kernel' = r.kernel
              /\ call' = [call EXCEPT !.op = "create", !.ret = r.ret,
                                      !.ioctls = r.ioctls, !.vma = NoVma,
                                      !.errno = IF r.ret = "0" THEN "0" ELSE e]
    /\ UNCHANGED <<i915, drv, is_prelim_kernel, vma, thr>>

(* drv_bo_map: the host hands a zeroed descriptor to bo_map, keeps it with   *)
(* the address and the flags when the backend succeeds and drops it when not. *)
Map ==
    /\ bo.state = "created"
    /\ vma.addr = "none"
    /\ \E map_flags \in MapFlagSets, o \in MapOutcomes :
          LET r == i915_bo_map(bo, i915, NoVma, map_flags, o)
          IN  /\ vma' = IF r.addr = MAP_FAILED
                        THEN NoVma
                        ELSE [r.vma EXCEPT !.addr = r.addr, !.map_flags = map_flags]
              /\ call' = [call EXCEPT !.op = "map", !.ret = r.addr,
                                      !.ioctls = r.ioctls, !.vma = r.vma,
                                      !.errno = "0"]
    /\ UNCHANGED <<i915, drv, is_prelim_kernel, local, bo, kernel, thr>>

(* drv_bo_munmap. *)
Unmap ==
    /\ bo.state = "created"
    /\ vma.addr # "none"
    /\ vma' = NoVma
    /\ call' = [call EXCEPT !.op = "unmap", !.ret = "0",
                            !.ioctls = <<Ioctl("munmap", bo.handles[1], vma.length,
                                               <<>>, {}, TRUE)>>,
                            !.vma = NoVma, !.errno = "0"]
    /\ UNCHANGED <<i915, drv, is_prelim_kernel, local, bo, kernel, thr>>

(* bo_invalidate on the mapped buffer. *)
Invalidate ==
    /\ bo.state = "created"
    /\ vma.addr # "none"
    /\ \E domain_ok \in BOOLEAN, e \in Errnos :
          LET r == i915_bo_invalidate(bo, i915, vma.map_flags, domain_ok, e)
          IN  call' = [call EXCEPT !.op = "invalidate", !.ret = r.ret,
                                   !.ioctls = r.ioctls, !.vma = vma,
                                   !.errno = IF \E i \in DOMAIN r.ioctls :
                                                   ~r.ioctls[i].ok
                                             THEN e ELSE "0"]
    /\ UNCHANGED <<i915, drv, is_prelim_kernel, local, bo, kernel, vma, thr>>

(* drv_bo_import: drv_bo_new followed by the backend's bo_import. *)
Import ==
    /\ bo.state = "none"
    /\ kernel.next <= MaxHandles
    /\ \E data \in ImportData, prime_ok \in BOOLEAN, tiling_ok \in BOOLEAN,
          kernel_tiling \in KernelTilings, e \in Errnos :
          LET r == i915_bo_import(
                       [NoBo EXCEPT !.meta = drv_bo_new(data.width, data.height,
                                                        data.format, data.use_flags)],
                       i915, data, kernel, prime_ok, tiling_ok, kernel_tiling, e)
          IN  \E ret \in (IF r.assert_failed THEN {"SIGABRT", r.ret} ELSE {r.ret}) :
                /\ bo' = IF ret = "SIGABRT"
                         THEN [NoBo EXCEPT !.state = "failed"]
                         ELSE [r.bo EXCEPT !.state = IF ret = "0" THEN "created"
                                                               ELSE "failed",
                                           !.meta.format_modifier =
                                               data.format_modifier]
                /\ kernel' = IF ret = "SIGABRT" THEN kernel ELSE r.kernel
                /\ call' = [op |-> "import", ret |-> ret, req |-> data,
                            ioctls |-> IF ret = "SIGABRT" THEN <<>> ELSE r.ioctls,
                            vma |-> NoVma,
                            errno |-> IF ret \in {"0", "SIGABRT"} THEN "0" ELSE e]
    /\ UNCHANGED <<i915, drv, is_prelim_kernel, local, vma, thr>>

(* drv_gem_bo_destroy closes the handle of the buffer. *)
Destroy ==
    /\ bo.state = "created"
    /\ vma.addr = "none"
    /\ kernel' = GemClose(kernel, bo.handles[1])
    /\ bo' = NoBo
    /\ call' = NoCall
    /\ UNCHANGED <<i915, drv, is_prelim_kernel, local, vma, thr>>

Next ==
    \/ PlanBuffer \/ Free \/ CreateFromMetadata \/ Map \/ Unmap \/ Destroy
    \/ Invalidate \/ Import

Spec == Init /\ [][Next]_vars

----------------------------------------------------------------------------
(* Two threads creating buffers on one device. is_need_local writes its      *)
(* static variable and reads it back without synchronisation: the write and  *)
(* the read are steps of their own, and the value a thread returns is the    *)
(* one it wrote or the one the variable holds when it reads.                 *)

Threads == {"A", "B"}

ConcRequests ==
    {[width |-> 100, height |-> 2, format |-> DRM_FORMAT_ARGB8888, use_flags |-> u,
      modifiers |-> NULL, count |-> 0] :
        u \in {{"RENDERING"}, {"SW_READ_OFTEN", "SW_WRITE_OFTEN", "TEXTURE"}}}

IdleThread ==
    [pc |-> "idle", bo |-> NoBo, need_local |-> TRUE, ret |-> "0", ioctls |-> <<>>]

InitConc ==
    /\ i915 \in {dev \in Devices :
                    /\ ReachableDevice(dev)
                    /\ dev.has_local_mem /\ dev.has_mmap_offset /\ ~dev.is_xelpd
                    /\ dev.graphics_version = 12}
    /\ drv \in {d \in Drivers : d.compression /\ d.gpu_grp_type = {}}
    /\ is_prelim_kernel \in BOOLEAN
    /\ local = TRUE
    /\ bo = NoBo
    /\ call = NoCall
    /\ kernel = [open |-> {}, next |-> 1]
    /\ vma = NoVma
    /\ thr = [t \in Threads |-> IdleThread]

(* Thread t plans a buffer of its own. *)
ConcPlan(t) ==
    /\ thr[t].pc = "idle"
    /\ kernel.next <= MaxHandles
    /\ \E req \in ConcRequests :
          LET r == i915_bo_compute_metadata(
                       drv_bo_new(req.width, req.height, req.format, req.use_flags),
                       drv, i915, req.width, req.height, req.format, req.use_flags,
                       req.modifiers, req.count)
          IN  /\ r.ret = "0" /\ ~r.assert_failed
              /\ thr' = [thr EXCEPT ![t] =
                            [IdleThread EXCEPT !.pc = "planned",
                                               !.bo = [NoBo EXCEPT !.state = "planned",
                                                                   !.meta = r.meta]]]
    /\ UNCHANGED <<i915, drv, is_prelim_kernel, local, bo, call, kernel, vma>>

(* Thread t enters i915_bo_create_from_metadata and is_need_local writes. *)
ConcStore(t) ==
    /\ thr[t].pc = "planned"
    /\ local' = is_need_local(thr[t].bo.meta.use_flags)
    /\ thr' = [thr EXCEPT ![t].pc = "stored"]
    /\ UNCHANGED <<i915, drv, is_prelim_kernel, bo, call, kernel, vma>>

(* is_need_local returns in thread t. *)
ConcLoad(t) ==
    /\ thr[t].pc = "stored"
    /\ \E v \in {local, is_need_local(thr[t].bo.meta.use_flags)} :
          thr' = [thr EXCEPT ![t].pc = "loaded", ![t].need_local = v]
    /\ UNCHANGED <<i915, drv, is_prelim_kernel, local, bo, call, kernel, vma>>

(* The rest of i915_bo_create_from_metadata in thread t. *)
ConcCreate(t) ==
    /\ thr[t].pc = "loaded"
    /\ \E create_ok \in BOOLEAN, tiling_ok \in BOOLEAN, e \in Errnos :
          LET r == i915_bo_create_from_metadata(thr[t].bo, i915, is_prelim_kernel,
                                                thr[t].need_local, kernel,
                                                create_ok, tiling_ok, e)
          IN  /\ kernel' = r.kernel
              /\ thr' = [thr EXCEPT ![t].pc = "done",
                                    ![t].bo = [r.bo EXCEPT !.state =
                                                  IF r.ret = "0" THEN "created"
                                                  ELSE "create_failed"],
                                    ![t].ret = r.ret,
                                    ![t].ioctls = r.ioctls]
    /\ UNCHANGED <<i915, drv, is_prelim_kernel, local, bo, call, vma>>

(* Thread t destroys its buffer, or frees the one it failed to create. *)
ConcDestroy(t) ==
    /\ thr[t].pc = "done"
    /\ kernel' = IF thr[t].bo.state = "created"
                 THEN GemClose(kernel, thr[t].bo.handles[1])
                 ELSE kernel
    /\ thr' = [thr EXCEPT ![t] = IdleThread]
    /\ UNCHANGED <<i915, drv, is_prelim_kernel, local, bo, call, vma>>

NextConc ==
    \E t \in Threads :
        ConcPlan(t) \/ ConcStore(t) \/ ConcLoad(t) \/ ConcCreate(t) \/ ConcDestroy(t)

SpecConc == InitConc /\ [][NextConc]_vars

----------------------------------------------------------------------------
(* Several devices in one process: i915_init and i915_close on each driver,  *)
(* buffers created on any open one.  Here drv is the table of the drivers;   *)
(* each entry keeps, next to priv, whether it is open and whether the prelim   *)
(* query of its last i915_init succeeded.                                    *)

Fds == {"card0", "card1"}

(* What the hardware behind a file descriptor is: generation and whether it  *)
(* has a device-local memory region. *)
Hardware == {[gen |-> <<9, 0>>, vram |-> FALSE], [gen |-> <<12, 0>>, vram |-> FALSE],
             [gen |-> <<12, 0>>, vram |-> TRUE]}

(* The answers i915_init gets: the GETPARAM requests and the device table,   *)
(* the prelim and the upstream memory-region query, the force_mem property.  *)
Probes == [params_ok : BOOLEAN, prelim_ok : BOOLEAN, query_ok : BOOLEAN,
           force : BOOLEAN]

(* i915_bo_query_prelim_meminfo: has_local_mem from the regions, and the     *)
(* process-global flag set on success. *)
i915_bo_query_prelim_meminfo(flag, hw, probe) ==
    IF probe.prelim_ok
    THEN [ok |-> TRUE, has_local_mem |-> hw.vram, is_prelim_kernel |-> TRUE]
    ELSE [ok |-> FALSE, has_local_mem |-> FALSE, is_prelim_kernel |-> flag]

(* i915_bo_query_meminfo: has_local_mem from the regions when it succeeds. *)
i915_bo_query_meminfo(hw, probe) == probe.query_ok /\ hw.vram

(* i915_init: the device it stores in drv->priv, and the flag afterwards. *)
i915_init(flag, hw, probe) ==
    IF ~probe.params_ok
    THEN [ret |-> "-EINVAL", priv |-> NULL, is_prelim_kernel |-> flag]
    ELSE LET pq == i915_bo_query_prelim_meminfo(flag, hw, probe)
             lmem == IF pq.ok THEN pq.has_local_mem
                     ELSE i915_bo_query_meminfo(hw, probe)
         IN  [ret |-> "0",
              priv |-> Device(hw.gen, FALSE, lmem, TRUE, lmem /\ probe.force),
              is_prelim_kernel |-> pq.is_prelim_kernel]

(* A driver without a device: priv is NULL. *)
NoDriver == [open |-> FALSE, priv |-> NULL, prelim_ok |-> FALSE]

InitRequests ==
    {[width |-> 100, height |-> 2, format |-> DRM_FORMAT_ARGB8888, use_flags |-> u,
      modifiers |-> NULL, count |-> 0] : u \in {{"RENDERING"}, {"SW_READ_OFTEN"}}}

InitProc ==
    /\ i915 = NULL
    /\ drv = [fd \in Fds |-> NoDriver]
    /\ is_prelim_kernel = FALSE
    /\ local = TRUE
    /\ bo = NoBo
    /\ call = NoCall
    /\ kernel = [open |-> {}, next |-> 1]
    /\ vma = NoVma
    /\ thr = <<>>

(* drv_create on fd: the backend's init; a failed init leaves no device. *)
I915Init(fd) ==
    /\ ~drv[fd].open
    /\ \E hw \in Hardware, probe \in Probes :
          LET r == i915_init(is_prelim_kernel, hw, probe)
          IN  /\ drv' = [drv EXCEPT ![fd] = [open |-> r.ret = "0", priv |-> r.priv,
                                            prelim_ok |-> r.ret = "0" /\ probe.prelim_ok]]
              /\ is_prelim_kernel' = r.is_prelim_kernel
              /\ call' = [NoCall EXCEPT !.op = "init", !.ret = r.ret,
                                        !.req = [fd |-> fd]]
    /\ UNCHANGED <<i915, local, bo, kernel, vma, thr>>

(* drv_destroy on fd: i915_close frees the device. *)
I915Close(fd) ==
    /\ drv[fd].open
    /\ bo.state = "none"
    /\ drv' = [drv EXCEPT ![fd] = NoDriver]
    /\ call' = [NoCall EXCEPT !.op = "close", !.req = [fd |-> fd]]
    /\ UNCHANGED <<i915, is_prelim_kernel, local, bo, kernel, vma, thr>>

(* drv_bo_create on the device of fd: the plan, then bo_create_from_metadata; *)
(* the host frees the buffer at once when the creation fails. *)
BoCreate(fd) ==
    /\ drv[fd].open
    /\ bo.state = "none"
    /\ kernel.next <= MaxHandles
    /\ \E req \in InitRequests :
       \E plan \in {i915_bo_compute_metadata(
                        drv_bo_new(req.width, req.height, req.format, req.use_flags),
                        [compression |-> TRUE, gpu_grp_type |-> {}], drv[fd].priv,
                        req.width, req.height, req.format, req.use_flags,
                        req.modifiers, req.count)} :
       \E create_ok \in BOOLEAN, tiling_ok \in BOOLEAN, e \in Errnos :
          LET need_local == is_need_local(req.use_flags)
              r == i915_bo_create_from_metadata([NoBo EXCEPT !.meta = plan.meta],
                                                drv[fd].priv, is_prelim_kernel,
                                                need_local, kernel, create_ok,
                                                tiling_ok, e)
          IN  /\ plan.ret = "0"
              /\ local' = need_local
              /\ bo' = IF r.ret = "0" THEN [r.bo EXCEPT !.state = "created"] ELSE NoBo
              /\ kernel' = r.kernel
              /\ call' = [op |-> "create", ret |-> r.ret, req |-> [fd |-> fd],
                          ioctls |-> r.ioctls, vma |-> NoVma,
                          errno |-> IF r.ret = "0" THEN "0" ELSE e]
    /\ UNCHANGED <<i915, drv, is_prelim_kernel, vma, thr>>

NextProc ==
    \/ \E fd \in Fds : I915Init(fd)
    \/ \E fd \in Fds : I915Close(fd)
    \/ \E fd \in Fds : BoCreate(fd)
    \/ Destroy

SpecProc == InitProc /\ [][NextProc]_vars

----------------------------------------------------------------------------
(* Properties of the planner.                                               *)

(* The preference list of a device as the design states it, by gen_x10. *)
PreferenceList ==
    LET x10 == i915.graphics_version * 10 + i915.sub_version
    IN  IF x10 >= 125 THEN <<"4_TILED_MTL_RC_CCS", "4_TILED", "X_TILED", "LINEAR">>
        ELSE IF i915.graphics_version = 12
        THEN <<"Y_TILED_GEN12_RC_CCS", "Y_TILED", "X_TILED", "LINEAR">>
        ELSE IF i915.graphics_version = 11 THEN <<"Y_TILED", "X_TILED", "LINEAR">>
        ELSE <<"Y_TILED_CCS", "Y_TILED", "X_TILED", "LINEAR">>

CcsModifiers == {"Y_TILED_CCS", "Y_TILED_GEN12_RC_CCS", "4_TILED_MTL_RC_CCS"}

Planned == call.op = "compute_metadata" /\ call.ret = "0"

WithClientList == call.op = "compute_metadata" /\ call.req.modifiers # NULL

(* The modifiers that occur in the client list and in the preference list. *)
Common == Range(call.req.modifiers) \cap Range(PreferenceList)

Rank(m) == CHOOSE i \in 1..Len(PreferenceList) : PreferenceList[i] = m

IsHighestCommon(m) == m \in Common /\ \A o \in Common : Rank(m) <= Rank(o)

(* The requests on which one of the three override rules can act. *)
HugeCase ==
    /\ i915.graphics_version < 11
    /\ call.req.width > 4096
    /\ call.req.format \notin {"NV12", "P010"}

CompressionCase == ~drv.compression /\ "Y_TILED_CCS" \in Common

Gen8Case == i915.graphics_version <= 8 /\ call.req.format = "ARGB8888"

C2_DisjointListFails ==
    (WithClientList /\ Common = {}) =>
        call.ret = "-EINVAL" /\ bo.state # "planned"

(* C3: the total size of a successful plan is a multiple of the page size,   *)
(* and every plane offset of a plan whose tiling is not NONE is one too.     *)
C3_PageAligned ==
    Planned =>
        /\ bo.meta.total_size % 4096 = 0
        /\ bo.meta.tiling # "NONE" =>
               \A p \in 0..(bo.meta.num_planes - 1) : bo.meta.offsets[p + 1] % 4096 = 0

(* C4: a successful plan with a CCS modifier has two planes, the first at    *)
(* offset 0 and the second right after it; i915_num_planes_from_modifier is  *)
(* 2 for the CCS modifiers and the format's plane count for the others.      *)
C4_CcsTwoPlanes ==
    /\ (Planned /\ bo.meta.format_modifier \in CcsModifiers) =>
           /\ bo.meta.num_planes = 2
           /\ bo.meta.offsets[1] = 0
           /\ bo.meta.offsets[2] = bo.meta.sizes[1]
    /\ \A f \in Formats, m \in ClientModifiers :
           i915_num_planes_from_modifier(f, m) =
               IF m \in CcsModifiers THEN 2 ELSE drv_num_planes_from_format(f)

(* C5: with compression disabled no successful plan stores a CCS modifier.   *)
C5_NoCcsWhenDisabled ==
    (Planned /\ ~drv.compression) => bo.meta.format_modifier \notin CcsModifiers

(* C6: on graphics_version < 11, a successful plan of a surface wider than   *)
(* 4096 in a format other than NV12 and P010 stores X_TILED or LINEAR.       *)
C6_HugeSurface ==
    (Planned /\ HugeCase) => bo.meta.format_modifier \in {"X_TILED", "LINEAR"}

(* A huge surface whose client list ranks Y_TILED first is planned X-tiled,  *)
(* and one planned from the registry, which offers Y_TILED, is linear.       *)
C6_Witness ==
    /\ Planned /\ HugeCase /\ i915.graphics_version = 9
    /\ \/ /\ call.req.modifiers = <<"Y_TILED", "X_TILED">>
          /\ bo.meta.format_modifier = "X_TILED"
       \/ /\ call.req.modifiers = NULL
          /\ call.req.format = "ARGB8888" /\ call.req.use_flags = {"RENDERING"}
          /\ drv.gpu_grp_type = {}
          /\ bo.meta.format_modifier = "LINEAR"

----------------------------------------------------------------------------
(* Properties of the allocator and of mapping.                              *)

SwFlags == {"SW_READ_RARELY", "SW_READ_OFTEN", "SW_WRITE_RARELY", "SW_WRITE_OFTEN"}

CreateNames == {"GEM_CREATE", "GEM_CREATE_EXT", "PRELIM_GEM_CREATE_EXT"}

Created == call.op = "create"

(* The positions of the requests of a given name in the last call. *)
Issued(names) == {i \in DOMAIN call.ioctls : call.ioctls[i].name \in names}

(* C7: called by one thread, i915_bo_create_from_metadata asks for exactly   *)
(* one buffer, with plain GEM_CREATE and no vram region, when the use flags  *)
(* hold a software read or write flag or the device has no local memory.     *)
C7_SystemMemory ==
    (Created /\ (bo.meta.use_flags \cap SwFlags # {} \/ ~i915.has_local_mem)) =>
        /\ Cardinality(Issued(CreateNames)) = 1
        /\ \A i \in Issued(CreateNames) :
               /\ call.ioctls[i].name = "GEM_CREATE"
               /\ "vram" \notin Range(call.ioctls[i].regions)

(* A buffer with only SW_WRITE_RARELY created on a prelim kernel with local  *)
(* memory forced. *)
C7_Witness ==
    /\ Created /\ call.ret = "0"
    /\ bo.meta.use_flags = {"SW_WRITE_RARELY"}
    /\ i915.has_local_mem /\ i915.force_mem_local /\ is_prelim_kernel
    /\ call.ioctls[1].name = "GEM_CREATE"

(* C8, as stated: under every interleaving the value is_need_local returned  *)
(* to a thread is "the flags hold no software read or write flag" of that    *)
(* thread's own buffer.                                                      *)
C8_OwnFlagsOnly ==
    \A t \in DOMAIN thr :
        thr[t].pc \in {"loaded", "done"} =>
            thr[t].need_local = (thr[t].bo.meta.use_flags \cap SwFlags = {})

(* C9: a create call that succeeds leaves exactly one handle open, stored in *)
(* handles[p] for every p < num_planes; one that fails leaves none open; a   *)
(* failed SET_TILING is followed by exactly one GEM_CLOSE of the new handle; *)
(* SET_TILING is issued after every successful creation except on            *)
(* gen_x10 == 125 and graphics_version == 14, where it never is.             *)
C9_HandleDiscipline ==
    Created =>
        LET x10 == i915.graphics_version * 10 + i915.sub_version
            made == {call.ioctls[i].handle : i \in {k \in Issued(CreateNames) :
                                                      call.ioctls[k].ok}}
            tilings == Issued({"GEM_SET_TILING"})
            closes == Issued({"GEM_CLOSE"})
        IN  /\ call.ret = "0" =>
                   /\ Cardinality(made) = 1
                   /\ kernel.open = made
                   /\ \A p \in 0..(bo.meta.num_planes - 1) : bo.handles[p + 1] \in made
            /\ call.ret # "0" => kernel.open = {}
            /\ \A i \in tilings :
                   ~call.ioctls[i].ok =>
                       /\ call.ret # "0"
                       /\ Cardinality(closes) = 1
                       /\ \A c \in closes :
                              c > i /\ call.ioctls[c].handle \in made
            /\ IF x10 = 125 \/ i915.graphics_version = 14
               THEN tilings = {}
               ELSE made # {} => Cardinality(tilings) = 1

(* SET_TILING failed on a two-plane buffer and the handle was closed. *)
C9_Witness ==
    /\ Created /\ call.ret # "0"
    /\ bo.meta.num_planes = 2
    /\ Issued({"GEM_CLOSE"}) # {}
    /\ kernel.next > 1

(* C10: i915_bo_map of a buffer with a CCS modifier returns MAP_FAILED,      *)
(* issues no request to the kernel and leaves the descriptor as it got it.   *)
C10_CcsNotMappable ==
    (call.op = "map" /\ bo.meta.format_modifier \in CcsModifiers) =>
        /\ call.ret = "MAP_FAILED"
        /\ call.ioctls = <<>>
        /\ call.vma = NoVma
        /\ vma = NoVma

(* A map call on a Meteor Lake compressed buffer. *)
C10_Witness ==
    /\ call.op = "map"
    /\ bo.meta.format_modifier = "4_TILED_MTL_RC_CCS"
    /\ call.ret = "MAP_FAILED"

(* C11: an i915_bo_map call that returns an address has set vma.length to    *)
(* the total size of the buffer, one that returns MAP_FAILED has left the    *)
(* length as it got it, and the unmap that follows a map releases exactly    *)
(* total_size bytes.                                                         *)
C11_MappedLength ==
    /\ call.op = "map" =>
           IF call.ret = "MAP_FAILED"
           THEN call.vma.length = 0 /\ vma = NoVma
           ELSE /\ call.vma.length = bo.meta.total_size
                /\ vma.length = bo.meta.total_size
    /\ call.op = "unmap" =>
           /\ Len(call.ioctls) = 1
           /\ call.ioctls[1].name = "munmap"
           /\ call.ioctls[1].size = bo.meta.total_size

(* A tiled buffer mapped through GEM_MMAP after GEM_MMAP_GTT failed. *)
C11_Witness ==
    /\ call.op = "map" /\ call.ret # "MAP_FAILED"
    /\ ~i915.has_mmap_offset /\ bo.meta.tiling # "NONE"
    /\ Len(call.ioctls) = 2
    /\ call.ioctls[1].name = "GEM_MMAP_GTT" /\ ~call.ioctls[1].ok
    /\ call.ioctls[2].name = "GEM_MMAP"
    /\ vma.length = bo.meta.total_size /\ vma.length > 0

(* C12, as stated: a linear R8 plan of the generic per-plane path has        *)
(* sizes[0] = align(width, 64) when the height is 1 and                      *)
(* sizes[0] = align(width, 64) * align(height, 4) when it is more.           *)
C12_AsStated ==
    (Planned /\ bo.meta.format = "R8" /\ bo.meta.tiling = "NONE") =>
        LET w64 == ((call.req.width + 63) \div 64) * 64
            h4 == ((call.req.height + 3) \div 4) * 4
        IN  bo.meta.sizes[1] = IF call.req.height = 1 THEN w64 ELSE w64 * h4

(* C12, amended: the stride of a linear R8 plan is the width, not aligned,   *)
(* and sizes[0] = width when the height is 1 and width * align(height, 4)    *)
(* when it is more.                                                          *)
C12_LinearR8Size ==
    (Planned /\ bo.meta.format = "R8" /\ bo.meta.tiling = "NONE") =>
        LET h4 == ((call.req.height + 3) \div 4) * 4
        IN  /\ bo.meta.strides[1] = call.req.width
            /\ bo.meta.sizes[1] =
                   IF call.req.height = 1 THEN call.req.width ELSE call.req.width * h4

(* A linear R8 plan 100 wide and 33 high: 100 * 36 bytes. *)
C12_Witness ==
    /\ Planned /\ bo.meta.format = "R8" /\ bo.meta.tiling = "NONE"
    /\ call.req.width = 100 /\ call.req.height = 33
    /\ bo.meta.sizes[1] = 3600

(* C13: a create, import or invalidate call in which an ioctl failed returns *)
(* the negated errno of that ioctl.                                          *)
C13_ErrnoPropagated ==
    (call.op \in {"create", "import", "invalidate"} /\ call.errno # "0") =>
        call.ret = "-" \o call.errno

(* The NV12 1920x1088 camera, decoder and scanout request without a client   *)
(* list, planned on gen 12.0 without local memory and compression disabled.  *)
C14_Case ==
    /\ call.op = "compute_metadata"
    /\ call.req.format = "NV12" /\ call.req.width = 1920 /\ call.req.height = 1088
    /\ call.req.use_flags = {"CAMERA_READ", "CAMERA_WRITE", "HW_VIDEO_DECODER",
                             "SCANOUT"}
    /\ call.req.modifiers = NULL
    /\ i915.graphics_version = 12 /\ i915.sub_version = 0 /\ ~i915.has_local_mem
    /\ ~drv.compression

(* C14, as stated: that request is planned with modifier Y_TILED, tiling Y.  *)
C14_AsStated ==
    C14_Case => /\ call.ret = "0"
                /\ bo.meta.format_modifier = "Y_TILED"
                /\ bo.meta.tiling = "Y"

(* C14, amended: that request is planned with modifier LINEAR, tiling NONE:  *)
(* the linear NV12 combination is the only one whose usage holds the camera  *)
(* flags.                                                                    *)
C14_Nv12CameraLinear ==
    C14_Case => /\ call.ret = "0"
                /\ bo.meta.format_modifier = "LINEAR"
                /\ bo.meta.tiling = "NONE"
                /\ bo.meta.num_planes = 2
                /\ bo.meta.strides[1] = 1920

(* The request planned on a host with no GPU group restriction. *)
C14_Witness ==
    /\ C14_Case /\ call.ret = "0" /\ drv.gpu_grp_type = {}
    /\ bo.meta.format_modifier = "LINEAR"
    /\ bo.meta.sizes[1] = 1920 * 1088

(* A huge surface whose first selection is neither X_TILED nor LINEAR, on a  *)
(* generation where no later override applies to the format.                 *)
C15_Case ==
    /\ Planned /\ HugeCase /\ ~Gen8Case
    /\ SelectModifier(drv, i915, call.req.format, call.req.use_flags,
                      call.req.modifiers, call.req.count)
           \notin {"X_TILED", "LINEAR"}

(* C15: such a surface is planned X_TILED when X_TILED is in the client list *)
(* or, without a client list, in the generation list, and LINEAR otherwise;  *)
(* ARGB8888 5000x1000 for rendering without a list on gen 9 is X-tiled with  *)
(* strides[0] = 20480 and sizes[0] = 20480000.                               *)
C15_HugeDemotion ==
    /\ C15_Case =>
           bo.meta.format_modifier =
               IF "X_TILED" \in (IF call.req.modifiers # NULL
                                 THEN Range(call.req.modifiers)
                                 ELSE Range(PreferenceList))
               THEN "X_TILED" ELSE "LINEAR"
    /\ ( /\ Planned /\ i915.graphics_version = 9
         /\ call.req.format = "ARGB8888"
         /\ call.req.width = 5000 /\ call.req.height = 1000
         /\ call.req.use_flags = {"RENDERING"} /\ call.req.modifiers = NULL )
       => /\ bo.meta.format_modifier = "X_TILED"
          /\ bo.meta.strides[1] = 20480
          /\ bo.meta.sizes[1] = 20480000

(* C16: the preference list is chosen by the first matching rule: gen_x10    *)
(* >= 125 gives the 4-tiled list, else graphics_version 12 the gen12 list,   *)
(* else graphics_version 11 the gen11 list, else the generic list; a         *)
(* version-12 device with sub_version >= 5 gets the 4-tiled list, every list *)
(* ends with X_TILED, LINEAR, and a plan from a client list on a tile-4      *)
(* device stores a modifier of the 4-tiled list.                             *)
C16_ModifierOrder ==
    LET order == i915_get_modifier_order(i915)
        x10 == i915.graphics_version * 10 + i915.sub_version
        n == Len(order)
    IN  /\ order =
               IF x10 >= 125
               THEN <<"4_TILED_MTL_RC_CCS", "4_TILED", "X_TILED", "LINEAR">>
               ELSE IF i915.graphics_version = 12
               THEN <<"Y_TILED_GEN12_RC_CCS", "Y_TILED", "X_TILED", "LINEAR">>
               ELSE IF i915.graphics_version = 11
               THEN <<"Y_TILED", "X_TILED", "LINEAR">>
               ELSE <<"Y_TILED_CCS", "Y_TILED", "X_TILED", "LINEAR">>
        /\ (i915.graphics_version = 12 /\ i915.sub_version >= 5)
               => order[1] = "4_TILED_MTL_RC_CCS"
        /\ n >= 2 /\ order[n - 1] = "X_TILED" /\ order[n] = "LINEAR"
        /\ (Planned /\ WithClientList /\ x10 >= 125)
               => bo.meta.format_modifier \in
                      {"4_TILED_MTL_RC_CCS", "4_TILED", "X_TILED", "LINEAR"}

(* A version 12.5 device planned a buffer from a client list that offers     *)
(* the gen12 compressed modifier first: the 4-tiled entry was taken.         *)
C16_Witness ==
    /\ Planned /\ i915.graphics_version = 12 /\ i915.sub_version = 5
    /\ call.req.modifiers = <<"Y_TILED_GEN12_RC_CCS", "4_TILED">>
    /\ bo.meta.format_modifier = "4_TILED"
    /\ bo.meta.tiling = "4"

(* C17: i915_bo_invalidate issues no SET_DOMAIN and returns 0 on gen_x10 =   *)
(* 125; on every other generation it issues exactly one SET_DOMAIN, on the   *)
(* buffer's first handle, whose read domain is CPU for tiling NONE and GTT   *)
(* otherwise and whose write domain is that domain when the mapping has      *)
(* BO_MAP_WRITE and 0 when it has not.                                       *)
C17_InvalidateDomain ==
    call.op = "invalidate" =>
        IF i915.graphics_version * 10 + i915.sub_version = 125
        THEN call.ioctls = <<>> /\ call.ret = "0"
        ELSE LET domain == IF bo.meta.tiling = "NONE" THEN "CPU" ELSE "GTT"
             IN  /\ Len(call.ioctls) = 1
                 /\ call.ioctls[1].name = "GEM_SET_DOMAIN"
                 /\ call.ioctls[1].handle = bo.handles[1]
                 /\ call.ioctls[1].read_domains = domain
                 /\ call.ioctls[1].write_domain =
                        IF "WRITE" \in call.vma.map_flags THEN domain ELSE "0"
                 /\ call.ioctls[1].ok => call.ret = "0"

(* A tiled buffer mapped for writing was invalidated through the GTT domain. *)
C17_Witness ==
    /\ call.op = "invalidate" /\ call.ret = "0"
    /\ bo.meta.tiling # "NONE" /\ "WRITE" \in call.vma.map_flags
    /\ Len(call.ioctls) = 1
    /\ call.ioctls[1].read_domains = "GTT" /\ call.ioctls[1].write_domain = "GTT"

(* The handles adopted by the last call through PRIME_FD_TO_HANDLE. *)
Adopted ==
    {call.ioctls[i].handle : i \in {j \in Issued({"PRIME_FD_TO_HANDLE"}) :
                                        call.ioctls[j].ok}}

(* C18: after a successful import the buffer's tiling is the kernel's        *)
(* GET_TILING answer, except on gen_x10 = 125 and graphics_version 14 where  *)
(* it is the caller's tiling and no GET_TILING is issued; when GET_TILING    *)
(* fails the adopted buffer is destroyed after it and an error is returned,  *)
(* and no failed import leaves an adopted handle open.                       *)
C18_ImportTiling ==
    (call.op = "import" /\ call.ret # "SIGABRT") =>
        LET get == Issued({"GEM_GET_TILING"})
            close == Issued({"GEM_CLOSE"})
            no_fence == \/ i915.graphics_version * 10 + i915.sub_version = 125
                        \/ i915.graphics_version = 14
        IN  /\ call.ret = "0" =>
                  IF no_fence
                  THEN get = {} /\ bo.meta.tiling = call.req.tiling
                  ELSE /\ Cardinality(get) = 1
                       /\ \A i \in get : /\ call.ioctls[i].ok
                                         /\ call.ioctls[i].handle = bo.handles[1]
                                         /\ bo.meta.tiling = call.ioctls[i].tiling_mode
            /\ \A i \in get : ~call.ioctls[i].ok =>
                  /\ call.ret # "0"
                  /\ \E j \in close : /\ j > i
                                      /\ call.ioctls[j].handle = call.ioctls[i].handle
            /\ call.ret # "0" => Adopted \cap kernel.open = {}
            /\ call.ret = "0" => Adopted = {bo.handles[1]} /\ Adopted \subseteq kernel.open

(* An import on graphics_version 9 took the kernel's X tiling although the   *)
(* caller passed none.                                                       *)
C18_Witness ==
    /\ call.op = "import" /\ call.ret = "0"
    /\ i915.graphics_version = 9
    /\ call.req.tiling = "NONE" /\ bo.meta.tiling = "X"
    /\ Cardinality(Issued({"GEM_GET_TILING"})) = 1

(* C19: one i915_bo_map call on a device with has_mmap_offset issues at most *)
(* two GEM_MMAP_OFFSET requests; the first asks FIXED with local memory,     *)
(* else WC for scanout buffers used by none of renderscript, camera and      *)
(* frequent software reads, else WB; a second is issued only after a failed  *)
(* FIXED one and asks WC or WB by that rule; mmap follows only a successful  *)
(* request, and when the last request fails the call returns MAP_FAILED      *)
(* without issuing anything more.                                            *)
C19_MmapOffset ==
    (call.op = "map" /\ i915.has_mmap_offset) =>
        LET off == Issued({"GEM_MMAP_OFFSET"})
            mm == Issued({"mmap"})
            n == Len(call.ioctls)
            rule == IF /\ "SCANOUT" \in bo.meta.use_flags
                       /\ bo.meta.use_flags \cap {"RENDERSCRIPT", "CAMERA_READ",
                                                  "CAMERA_WRITE", "SW_READ_OFTEN"} = {}
                    THEN {"WC"} ELSE {"WB"}
            last == CHOOSE i \in off : \A j \in off : j <= i
        IN  /\ Cardinality(off) <= 2
            /\ off \subseteq {1, 2}
            /\ Issued({"GEM_MMAP", "GEM_MMAP_GTT"}) = {}
            /\ off # {} =>
                  /\ 1 \in off
                  /\ call.ioctls[1].flags =
                         IF i915.has_local_mem THEN {"FIXED"} ELSE rule
                  /\ call.ioctls[1].handle = bo.handles[1]
            /\ 2 \in off =>
                  /\ call.ioctls[1].flags = {"FIXED"} /\ ~call.ioctls[1].ok
                  /\ call.ioctls[2].flags = rule
            /\ \A i \in mm : /\ i = n /\ off # {}
                             /\ last = i - 1 /\ call.ioctls[last].ok
            /\ (off # {} /\ ~call.ioctls[last].ok) =>
                  /\ call.ret = "MAP_FAILED"
                  /\ last = n
            /\ (off # {} /\ call.ioctls[last].ok) => Cardinality(mm) = 1

(* On a device with local memory the FIXED request failed, the second one    *)
(* succeeded and the buffer was mapped.                                      *)
C19_Witness ==
    /\ call.op = "map" /\ i915.has_mmap_offset /\ i915.has_local_mem
    /\ Len(call.ioctls) = 3
    /\ call.ioctls[1].name = "GEM_MMAP_OFFSET" /\ call.ioctls[1].flags = {"FIXED"}
    /\ ~call.ioctls[1].ok
    /\ call.ioctls[2].name = "GEM_MMAP_OFFSET" /\ call.ioctls[2].ok
    /\ call.ioctls[3].name = "mmap"
    /\ call.ret = "addr"

(* C20: on gen_x10 >= 125 the alignment is 4 bytes by 4 rows for every       *)
(* tiling mode: a single-plane ARGB8888 buffer planned through the generic   *)
(* per-plane path has strides[0] = align(4 * width, 4) and sizes[0] =        *)
(* strides[0] * align(height, 4), whatever its tiling.                       *)
C20_Gen125Alignment ==
    ( /\ Planned
      /\ i915.graphics_version * 10 + i915.sub_version >= 125
      /\ call.req.format = "ARGB8888"
      /\ bo.meta.tiling \in {"NONE", "X", "Y", "4"}
      /\ bo.meta.format_modifier \in {"LINEAR", "X_TILED", "Y_TILED", "4_TILED"} )
    => /\ bo.meta.strides[1] = ALIGN(4 * call.req.width, 4)
       /\ bo.meta.sizes[1] = bo.meta.strides[1] * ALIGN(call.req.height, 4)

(* C21: every successful plan of format YVU420_ANDROID is linear: the stored *)
(* tiling is NONE and the stored modifier LINEAR, whatever modifier the      *)
(* registry or the client list gave, and the plane-0 stride is               *)
(* align(width, 32).                                                         *)
C21_AndroidYuvLinear ==
    (Planned /\ call.req.format = "YVU420_ANDROID") =>
        /\ bo.meta.tiling = "NONE"
        /\ bo.meta.format_modifier = "LINEAR"
        /\ bo.meta.strides[1] = ALIGN(call.req.width, 32)

(* The plane height the generic per-plane path multiplies the stride by. *)
PlaneHeight(p) ==
    LET al == i915_align_dimensions(bo.meta, i915, call.req.format, bo.meta.tiling,
                  drv_stride_from_format(call.req.format, call.req.width, p),
                  drv_height_from_format(call.req.format, call.req.height, p))
    IN  IF i915_format_needs_LCU_alignment(call.req.format, p, i915)
        THEN ALIGN(al.aligned_height, 64)
        ELSE al.aligned_height

(* The sum of the stored plane sizes, computed without loss. *)
RECURSIVE SumSizes(_)
SumSizes(n) == IF n = 0 THEN U32(0) ELSE WAdd(SumSizes(n - 1), bo.meta.sizes[n])

(* C22: in every successful plan of the backend's own layout code, computed  *)
(* in 32-bit unsigned arithmetic, offsets[0] = 0, offsets[p+1] = offsets[p]  *)
(* + sizes[p], total_size >= the sum of the sizes, and on the generic path   *)
(* sizes[p] is the true product stride * aligned height: nothing wraps       *)
(* modulo 2^32.                                                              *)
C22_NoWrap ==
    Planned =>
        /\ bo.meta.offsets[1] = U32(0)
        /\ \A p \in 1..(bo.meta.num_planes - 1) :
               bo.meta.offsets[p + 1] = WAdd(bo.meta.offsets[p], bo.meta.sizes[p])
        /\ WLeq(SumSizes(bo.meta.num_planes), bo.meta.total_size)
        /\ bo.meta.format_modifier \notin CcsModifiers =>
               \A p \in 1..bo.meta.num_planes :
                   bo.meta.sizes[p] = WMul(U32(bo.meta.strides[p]), PlaneHeight(p - 1))

(* C23: whenever a buffer is created, the process-global is_prelim_kernel    *)
(* flag is true exactly when the prelim memory-region query succeeded during *)
(* the initialization of the device the buffer is created on; a device whose *)
(* prelim query failed never takes the prelim create path.                   *)
C23_PrelimPerDevice ==
    call.op = "create" =>
        /\ is_prelim_kernel <=> drv[call.req.fd].prelim_ok
        /\ ~drv[call.req.fd].prelim_ok => Issued({"PRELIM_GEM_CREATE_EXT"}) = {}

====
